---- MODULE Spec2Model ----
(***************************************************************************)
(* The graphics worker of the MEGA SDK: GfxProcessor (ordered multi-size   *)
(* rendering, supported formats) and RequestProcessor (one command per     *)
(* connection, handled on a bounded thread pool), gfxworker/src/server.cpp.*)
(*                                                                         *)
(* C++ vectors are 0-based; the sequences here are 1-based, so index i of  *)
(* the source is index i+1 here.  A nullable value (a pointer that may be  *)
(* null) is a sequence of length at most one: <<>> is null, <<x>> is x.    *)
(* A std::string is a sequence of characters, "" is <<>>.                  *)
(***************************************************************************)
EXTENDS Integers, Sequences, FiniteSets

VARIABLES
    \* ---- the image provider shared by all calls
    provider,          \* [formats, videoformats]: what the provider reports
    \* ---- RequestProcessor, one entry per connection
    accepted,          \* connections handed to RequestProcessor::process so far
    phase,             \* where each connection is
    command,           \* the command read on the connection (nullable)
    readError,         \* why readCommand failed, "none" otherwise
    stopRunning,       \* the local stopRunning of process
    returned,          \* the value process returned (nullable)
    pushes,            \* calls of mThreadPool.push made for the connection
    locals,            \* the handler's locals while it is inside generateImages
    results,           \* what GfxProcessor::process returned to processGfx (nullable)
    response,          \* the response the handler has built (nullable)
    writes,            \* writeCommand calls on the endpoint, in order
    generateCalls,     \* generateImages calls made by the connection's task
    events,            \* what happened on the connection, in order
    endpoint,          \* who owns the connection's endpoint and how often it was
                       \* released
    \* ---- the thread pool
    threadCount,       \* the threadCount the pool was initialized with
    queue,             \* tasks waiting, oldest first
    running,           \* tasks a worker is executing
    \* ---- one direct call of GfxProcessor::process
    task,              \* the GfxTask passed
    pc,                \* "start", "inProvider" or "returned"
    indices,           \* the sorted index vector
    sortedDimensions,  \* the dimensions handed to the provider
    result,            \* the GfxTaskResult returned (nullable)
    providerCalls,     \* arguments of the generateImages calls the call made
    earlier,           \* the call before this one: its result, sort outcome and
                       \* provider calls (nullable)
    providerImages,    \* what generateImages returned to the call
    loop,              \* the scatter loop: its counter, outputImages, and the
                       \* positions of indices it read and of outputImages it wrote
    \* ---- one direct call of supportedformats / supportedvideoformats
    formatsOut,        \* what supportedformats returned (nullable)
    videoOut           \* what supportedvideoformats returned (nullable)

serverVars == <<accepted, phase, command, readError, stopRunning, returned, pushes,
                locals, results, response, writes, generateCalls, events, endpoint,
                threadCount,
                queue, running>>
processVars ==
    <<task, pc, indices, sortedDimensions, result, providerCalls, earlier, providerImages, loop>>
formatVars == <<formatsOut, videoOut>>
vars == <<provider, serverVars, processVars, formatVars>>

-----------------------------------------------------------------------------
(* Bounds of the model *)

NumConn == 3        \* connections the accept loop hands over
MaxThreads == 2     \* the constructor's threadCount is 1..MaxThreads
MaxQueueSize == 2   \* the constructor's maxQueueSize
MaxDims == 3        \* longest dimensions list of a directly processed task
MaxWidth == 2       \* widths are 0..MaxWidth
MaxHeight == 1      \* heights are 0..MaxHeight
MaxExts == 2        \* most extensions in a provider's format list
MaxSurplus == 1     \* most images a provider returns beyond the dimensions it was given

Conns == 1..NumConn

-----------------------------------------------------------------------------
(* Values *)

None == <<>>
Some(x) == <<x>>

SUCCESS == 0
ERR == 1
PENDING == 2

V_1 == 1
UNSUPPORTED == 2
\* Mutant: the latest version is taken to be the enumerator UNSUPPORTED itself.
LatestIsUnsupported == UNSUPPORTED

LATEST_SERIALIZE_VERSION == UNSUPPORTED - 1

READ_TIMEOUT == 5000
WRITE_TIMEOUT == 5000

CommandType == {"HELLO", "SHUTDOWN", "NEW_GFX", "SUPPORT_FORMATS"}

GfxDimension(w, h) == [w |-> w, h |-> h]
GfxTask(path, dimensions) == [Path |-> path, Dimensions |-> dimensions]
GfxTaskResult(outputImages, processStatus) ==
    [ProcessStatus |-> processStatus, OutputImages |-> outputImages]

-----------------------------------------------------------------------------
(* The image provider (IGfxProvider), a collaborator of GfxProcessor *)

\* The encoded image for one dimension: bytes that tell the source file, the size and
\* the position in the call apart.  Never the empty string.
EncodedImage(path, dimension, position) == <<path, dimension.w, dimension.h, position>>

\* generateImages: one encoded image per supplied dimension, in the supplied order.
GenerateImages(path, dimensions) ==
    [j \in 1..Len(dimensions) |-> EncodedImage(path, dimensions[j], j)]

-----------------------------------------------------------------------------
(* GfxProcessor::process *)

\* Mutant: the result vector is one slot short.
EmptyImagesShort(n) == [i \in 1..(n - 1) |-> <<>>]

\* std::vector<std::string> outputImages(task.Dimensions.size()): n empty strings.
EmptyImages(n) == [i \in 1..n |-> <<>>]

\* Mutant: the check for an empty dimensions list is missing.
DimensionsEmptyUnchecked(t) == FALSE

\* task.Dimensions.empty()
DimensionsEmpty(t) == Len(t.Dimensions) = 0

\* Mutant: the comparator sorts ascending.
WidthLess(dimensions, i1, i2) == dimensions[i1].w < dimensions[i2].w

\* The comparator given to std::sort: index i1 goes before i2 when its width is greater.
WidthGreater(dimensions, i1, i2) == dimensions[i1].w > dimensions[i2].w

IndexPermutations(n) == {p \in [1..n -> 1..n] : \A i, j \in 1..n : p[i] = p[j] => i = j}

\* std::iota then std::sort with the comparator: every arrangement of the indices in
\* which no later index goes before an earlier one.  std::sort is not stable, so equal
\* widths may end in any order.
SortIndices(dimensions) ==
    {p \in IndexPermutations(Len(dimensions)) :
        \A i, j \in 1..Len(dimensions) : i < j => ~WidthGreater(dimensions, p[j], p[i])}

\* std::sort run on a dimensions list it has sorted before (before holds that call,
\* null when there was none): the algorithm is unstable but not random, the same input
\* leaves the indices in the same order.
StdSort(dimensions, before) ==
    IF before # None /\ before[1].indices # <<>>
    THEN {before[1].indices}
    ELSE SortIndices(dimensions)

\* The sequence s without the later occurrences of its elements.
RECURSIVE Deduplicated(_)
Deduplicated(s) ==
    IF s = <<>>
    THEN <<>>
    ELSE LET front == Deduplicated(SubSeq(s, 1, Len(s) - 1))
         IN IF \E k \in DOMAIN front : front[k] = s[Len(s)]
            THEN front
            ELSE Append(front, s[Len(s)])

\* Mutant: a dimension requested more than once is handed to the provider once.
SortDimensionsMerged(dimensions, idx) ==
    Deduplicated([j \in 1..Len(idx) |->
                     GfxDimension(dimensions[idx[j]].w, dimensions[idx[j]].h)])

\* Mutant: the transform copies the dimensions in the caller's order.
SortDimensionsUnsorted(dimensions, idx) ==
    [j \in 1..Len(idx) |-> GfxDimension(dimensions[j].w, dimensions[j].h)]

\* std::transform over the sorted indices.
SortDimensions(dimensions, idx) ==
    [j \in 1..Len(idx) |-> GfxDimension(dimensions[idx[j]].w, dimensions[idx[j]].h)]

\* for (int i = 0; i < images.size(); ++i) outputImages[indices[i]] = images[i];
RECURSIVE ScatterFrom(_, _, _, _)
ScatterFrom(i, outputImages, idx, images) ==
    IF i > Len(images)
    THEN outputImages
    ELSE ScatterFrom(i + 1, [outputImages EXCEPT ![idx[i]] = images[i]], idx, images)

\* Mutant: the loop stops one image early.
ScatterAllButLast(outputImages, idx, images) ==
    ScatterFrom(1, outputImages, idx, SubSeq(images, 1, Len(images) - 1))

\* Mutant: the images are copied back in the provider's order.
ScatterInPlace(outputImages, idx, images) ==
    [i \in DOMAIN outputImages |-> IF i <= Len(images) THEN images[i] ELSE outputImages[i]]

Scatter(outputImages, idx, images) == ScatterFrom(1, outputImages, idx, images)

\* The scatter loop before its first iteration over a result vector of n slots:
\* i is the next value of the counter (one more than the source's), reads holds the
\* positions of indices read so far and writes the positions of outputImages written.
LoopStart(n) == [i |-> 1, outputImages |-> EmptyImages(n), reads |-> {}, writes |-> {}]

\* No loop is running.
NoLoop == LoopStart(0)

\* Mutant: a task without dimensions is left PENDING for a later attempt.
EmptyResultPending(t) == GfxTaskResult(EmptyImages(Len(t.Dimensions)), PENDING)

\* The early return for an empty dimensions list.
EmptyResult(t) == GfxTaskResult(EmptyImages(Len(t.Dimensions)), ERR)

\* The return after the provider answered.
ScatteredResult(t, idx, images) ==
    GfxTaskResult(Scatter(EmptyImages(Len(t.Dimensions)), idx, images), SUCCESS)

-----------------------------------------------------------------------------
(* GfxProcessor::supportedformats and supportedvideoformats *)

\* Mutant: the longer extension of each pair is listed first.
extraFormatsLongerFirst ==
    <<".", "t", "i", "f", "f", ".", "e", "x", "r", ".", "p", "i", "c", "t",
      ".", "p", "c", "t", ".", "t", "i", "f", ".", "p", "i", "c">>

extraFormatsByWorker ==
    <<".", "t", "i", "f", ".", "e", "x", "r", ".", "p", "i", "c", ".", "p", "c", "t",
      ".", "t", "i", "f", "f", ".", "p", "i", "c", "t">>

\* Mutant: the suffix is appended whether or not the provider reports a list.
supportedformatsAlwaysAppends(formats) ==
    (IF formats # None THEN formats[1] ELSE <<>>) \o extraFormatsByWorker

\* formats ? std::string(formats) + extraFormatsByWorker : ""
supportedformats(formats) ==
    IF formats # None THEN formats[1] \o extraFormatsByWorker ELSE <<>>

\* Mutant: the video list gets the suffix of the still-image list.
supportedvideoformatsAppends(videoformats) ==
    IF videoformats # None THEN videoformats[1] \o extraFormatsByWorker ELSE <<>>

\* videoformats ? std::string(videoformats) : ""
supportedvideoformats(videoformats) ==
    IF videoformats # None THEN videoformats[1] ELSE <<>>

-----------------------------------------------------------------------------
(* Inputs *)

Path == "/img/a.jpg"

Dimensions == {GfxDimension(w, h) : w \in 0..MaxWidth, h \in 0..MaxHeight}

SeqsUpTo(S, n) == UNION {[1..k -> S] : k \in 0..n}

\* The request of three sizes, none in descending order of width.
ExampleTask ==
    GfxTask(Path, <<GfxDimension(50, 50), GfxDimension(100, 100), GfxDimension(75, 75)>>)

\* The tasks GfxProcessor::process is called with directly.
Tasks == {GfxTask(Path, d) : d \in SeqsUpTo(Dimensions, MaxDims)} \cup {ExampleTask}

\* Extension lists a provider may report.
Extensions == {<<".", "j", "p", "g">>, <<".", "p", "n", "g">>, <<".", "g", "i", "f">>}
VideoExtensions == {<<".", "m", "p", "4">>, <<".", "a", "v", "i">>}

RECURSIVE Concat(_)
Concat(ss) == IF ss = <<>> THEN <<>> ELSE Head(ss) \o Concat(Tail(ss))

ExtensionLists(exts) == {Concat(ss) : ss \in SeqsUpTo(exts, MaxExts)}

Providers ==
    [formats : {None} \cup {Some(s) : s \in ExtensionLists(Extensions)},
     videoformats : {None} \cup {Some(s) : s \in ExtensionLists(VideoExtensions)}]

JpgPng == <<".", "j", "p", "g", ".", "p", "n", "g">>
Mp4 == <<".", "m", "p", "4">>

\* The provider the server runs with.
ServerProvider == [formats |-> Some(JpgPng), videoformats |-> Some(Mp4)]

\* The tasks clients send to the server.
ServerTasks ==
    {GfxTask(Path, <<>>), ExampleTask}

Commands ==
    {[type |-> t] : t \in CommandType \ {"NEW_GFX"}}
    \cup {[type |-> "NEW_GFX", Task |-> t] : t \in ServerTasks}

\* What a client puts on the wire: when the frame is there, whether all of it came,
\* whether it parses, its version tag and the command it encodes.
Frames ==
    [delay : {0, READ_TIMEOUT + 1}, complete : BOOLEAN, wellformed : BOOLEAN,
     version : {V_1, UNSUPPORTED}, command : Commands]

-----------------------------------------------------------------------------
(* ProtocolReader::readCommand *)

\* Why decoding the frame fails within the timeout, "none" when it does not.
ReadFailure(frame, timeout) ==
    CASE frame.delay > timeout -> "timeout"
      [] ~frame.complete -> "short"
      [] ~frame.wellformed -> "malformed"
      [] frame.version > LATEST_SERIALIZE_VERSION -> "version"
      [] OTHER -> "none"

\* The decoded command, or null.
readCommand(frame, timeout) ==
    IF ReadFailure(frame, timeout) = "none" THEN Some(frame.command) ELSE None

-----------------------------------------------------------------------------
(* Responses *)

CommandHelloResponse == [type |-> "HELLO_RESPONSE"]

\* Mutant: processShutDown builds the response of processHello.
ShutDownAnsweredAsHello == [type |-> "HELLO_RESPONSE"]

CommandShutDownResponse == [type |-> "SHUTDOWN_RESPONSE"]

\* response.ErrorCode = static_cast<uint32_t>(result.ProcessStatus): the enumerators
\* are 0, 1 and 2, which the conversion to 32 unsigned bits leaves as they are.
ErrorCode(processStatus) == processStatus

\* Mutant: the two texts are swapped.
ErrorTextSwapped(processStatus) == IF processStatus = SUCCESS THEN "ERROR" ELSE "OK"

\* response.ErrorText = result.ProcessStatus == SUCCESS ? "OK" : "ERROR"
ErrorText(processStatus) == IF processStatus = SUCCESS THEN "OK" ELSE "ERROR"

\* The response processGfx fills from the processor's result.
CommandNewGfxResponse(res) ==
    [type |-> "NEW_GFX_RESPONSE",
     ErrorCode |-> ErrorCode(res.ProcessStatus),
     ErrorText |-> ErrorText(res.ProcessStatus),
     Images |-> res.OutputImages]

\* The response processSupportFormats fills from the processor.
CommandSupportFormatsResponse(prov) ==
    [type |-> "SUPPORT_FORMATS_RESPONSE",
     formats |-> supportedformats(prov.formats),
     videoformats |-> supportedvideoformats(prov.videoformats)]

-----------------------------------------------------------------------------
(* Ownership of the endpoint: the unique_ptr parameter of process, the shared_ptr    *)
(* sharedEndpoint it is moved into, and the copy of sharedEndpoint the lambda holds. *)
(* The endpoint is destroyed with its last owner.                                    *)

\* An endpoint process has not been called with.
NoEndpoint == [owners |-> {}, released |-> 0]

\* process(std::unique_ptr<IEndpoint> endpoint): the parameter owns the endpoint.
Handed(e, c) == [e EXCEPT ![c].owners = {"endpoint"}]

\* std::shared_ptr<IEndpoint> sharedEndpoint = std::move(endpoint)
Moved(e, c, from, to) == [e EXCEPT ![c].owners = (@ \ {from}) \cup {to}]

\* Mutant: the lambda captures sharedEndpoint.get(), a pointer that owns nothing.
CapturedByPointer(e, c) == e

\* [sharedEndpoint, command, this]: the lambda holds a copy of sharedEndpoint.
Captured(e, c) == [e EXCEPT ![c].owners = @ \cup {"lambda"}]

\* An owner is destroyed; if it was the last one the endpoint is released.
Dropped(e, c, owner) ==
    [e EXCEPT ![c] = [owners |-> @.owners \ {owner},
                      released |-> IF @.owners = {owner} THEN @.released + 1
                                                                ELSE @.released]]

-----------------------------------------------------------------------------
(* RequestProcessor::process, on the thread of the accept loop *)

\* Mutant: the comparison is inverted.
IsNotShutdown(cmd) == cmd.type # "SHUTDOWN"

\* stopRunning = command->type() == CommandType::SHUTDOWN
IsShutdown(cmd) == cmd.type = "SHUTDOWN"

\* Mutant: the read is not part of what keeps the accept loop; process is busy only
\* from the decoded command to its return.
InProcessAfterRead == \E c \in Conns : phase[c] \in {"pushing"}

\* The accept loop is busy inside process with some connection.
InProcess == \E c \in Conns : phase[c] \in {"reading", "pushing"}

\* Mutant: once a SHUTDOWN command has been read the processor takes no connection.
AcceptUnlessStopped(c) ==
    /\ ~InProcess
    /\ \A d \in Conns : ~stopRunning[d]
    /\ c = accepted + 1
    /\ phase[c] = "waiting"
    /\ accepted' = c
    /\ phase' = [phase EXCEPT ![c] = "reading"]
    /\ endpoint' = Handed(endpoint, c)
    /\ UNCHANGED <<provider, events, results, threadCount, command, readError,
                   stopRunning, returned, pushes, locals, response, writes,
                   generateCalls, queue, running, processVars, formatVars>>

\* The accept loop hands the next connection's endpoint to process; the read begins.
Accept(c) ==
    /\ ~InProcess
    /\ c = accepted + 1
    /\ phase[c] = "waiting"
    /\ accepted' = c
    /\ phase' = [phase EXCEPT ![c] = "reading"]
    /\ endpoint' = Handed(endpoint, c)
    /\ UNCHANGED <<provider, events, results, threadCount, command, readError,
                   stopRunning, returned, pushes, locals, response, writes,
                   generateCalls, queue, running, processVars, formatVars>>

\* Mutant: the return after the failed read is missing, process goes on to the push.
ReadFailsNoReturn(c) ==
    /\ phase[c] = "reading"
    /\ \E frame \in Frames :
        /\ readCommand(frame, READ_TIMEOUT) = None
        /\ readError' = [readError EXCEPT ![c] = ReadFailure(frame, READ_TIMEOUT)]
    /\ phase' = [phase EXCEPT ![c] = "pushing"]
    /\ events' = [events EXCEPT ![c] = Append(@, "readFailed")]
    /\ endpoint' = Moved(endpoint, c, "endpoint", "sharedEndpoint")
    /\ UNCHANGED <<provider, results, threadCount, accepted, command, stopRunning,
                   returned, pushes, locals, response, writes, generateCalls, queue,
                   running, processVars, formatVars>>

\* Mutant: after a failed read the processor clears the pool's queue.
ReadFailsDropsQueue(c) ==
    /\ phase[c] = "reading"
    /\ \E frame \in Frames :
        /\ readCommand(frame, READ_TIMEOUT) = None
        /\ readError' = [readError EXCEPT ![c] = ReadFailure(frame, READ_TIMEOUT)]
    /\ phase' = [phase EXCEPT ![c] = "dropped"]
    /\ returned' = [returned EXCEPT ![c] = Some(stopRunning[c])]
    /\ events' = [events EXCEPT ![c] = Append(@, "readFailed")]
    /\ queue' = <<>>
    /\ endpoint' = Dropped(endpoint, c, "endpoint")
    /\ UNCHANGED <<provider, results, threadCount, accepted, command, stopRunning,
                   pushes, locals, response, writes, generateCalls, running,
                   processVars, formatVars>>

\* readCommand comes back with null: log, return stopRunning (still false).  The
\* endpoint is dropped with process's argument.
ReadFails(c) ==
    /\ phase[c] = "reading"
    /\ \E frame \in Frames :
        /\ readCommand(frame, READ_TIMEOUT) = None
        /\ readError' = [readError EXCEPT ![c] = ReadFailure(frame, READ_TIMEOUT)]
    /\ phase' = [phase EXCEPT ![c] = "dropped"]
    /\ returned' = [returned EXCEPT ![c] = Some(stopRunning[c])]
    /\ events' = [events EXCEPT ![c] = Append(@, "readFailed")]
    /\ endpoint' = Dropped(endpoint, c, "endpoint")
    /\ UNCHANGED <<provider, results, threadCount, accepted, command, stopRunning,
                   pushes, locals, response, writes, generateCalls, queue, running,
                   processVars, formatVars>>

\* Mutant: process acknowledges the command on the endpoint as soon as it is read.
ReadSucceedsEagerAck(c) ==
    /\ phase[c] = "reading"
    /\ \E frame \in Frames :
        /\ readCommand(frame, READ_TIMEOUT) # None
        /\ command' = [command EXCEPT ![c] = readCommand(frame, READ_TIMEOUT)]
        /\ stopRunning' =
               [stopRunning EXCEPT ![c] = IsShutdown(readCommand(frame, READ_TIMEOUT)[1])]
    /\ phase' = [phase EXCEPT ![c] = "pushing"]
    /\ writes' = [writes EXCEPT ![c] = Append(@, [response |-> CommandHelloResponse,
                                                  request |-> c,
                                                  timeout |-> WRITE_TIMEOUT,
                                                  ok |-> TRUE])]
    /\ events' = [events EXCEPT ![c] = @ \o <<"read", "write">>]
    /\ endpoint' = Moved(endpoint, c, "endpoint", "sharedEndpoint")
    /\ UNCHANGED <<provider, results, threadCount, accepted, readError, returned,
                   pushes, locals, response, generateCalls, queue, running,
                   processVars, formatVars>>

\* readCommand comes back with a command: stopRunning is computed, the push is next.
ReadSucceeds(c) ==
    /\ phase[c] = "reading"
    /\ \E frame \in Frames :
        /\ readCommand(frame, READ_TIMEOUT) # None
        /\ command' = [command EXCEPT ![c] = readCommand(frame, READ_TIMEOUT)]
        /\ stopRunning' =
               [stopRunning EXCEPT ![c] = IsShutdown(readCommand(frame, READ_TIMEOUT)[1])]
    /\ phase' = [phase EXCEPT ![c] = "pushing"]
    /\ events' = [events EXCEPT ![c] = Append(@, "read")]
    /\ endpoint' = Moved(endpoint, c, "endpoint", "sharedEndpoint")
    /\ UNCHANGED <<provider, results, threadCount, accepted, readError, returned,
                   pushes, locals, response, writes, generateCalls, queue, running,
                   processVars, formatVars>>

-----------------------------------------------------------------------------
(* The thread pool (ThreadPool), a collaborator of RequestProcessor *)

\* Mutant: the two arguments of initialize are swapped.
PoolThreadsSwapped(threads, maxQueue) == maxQueue

\* mThreadPool.initialize(threadCount, maxQueueSize): the workers the pool gets.
PoolThreadCount(threads, maxQueue) == threads

\* Mutant: the pool is given room for one task more than maxQueueSize.
PoolQueueOneMore(threads, maxQueue) == maxQueue + 1

\* mThreadPool.initialize(threadCount, maxQueueSize): the queue size the pool gets.
PoolMaxQueueSize(threads, maxQueue) == maxQueue

\* Queued plus running tasks.
PoolLoad == Len(queue) + Cardinality(running)

\* The pool holds as many tasks as it may.
PoolFull == PoolLoad >= PoolMaxQueueSize(threadCount, MaxQueueSize)

\* A worker is free to take the oldest queued task.
CanStart(c) ==
    /\ queue # <<>>
    /\ Head(queue) = c
    /\ Cardinality(running) < PoolThreadCount(threadCount, MaxQueueSize)

\* Mutant: process waits for the task it submitted before it returns.
PushAcceptedWaits(c) ==
    /\ phase[c] = "pushing"
    /\ ~PoolFull
    /\ queue' = Append(queue, c)
    /\ pushes' = [pushes EXCEPT ![c] = @ + 1]
    /\ phase' = [phase EXCEPT ![c] = "queued"]
    /\ events' = [events EXCEPT ![c] = Append(@, "push")]
    /\ endpoint' = Captured(endpoint, c)
    /\ UNCHANGED <<provider, results, threadCount, accepted, command, readError,
                   stopRunning, returned, locals, response, writes, generateCalls,
                   running, processVars, formatVars>>

\* mThreadPool.push takes the task; process returns stopRunning.  A pool that blocks
\* the submitter while it is full takes this step once there is room.
PushAccepted(c) ==
    /\ phase[c] = "pushing"
    /\ ~PoolFull
    /\ queue' = Append(queue, c)
    /\ pushes' = [pushes EXCEPT ![c] = @ + 1]
    /\ phase' = [phase EXCEPT ![c] = "queued"]
    /\ returned' = [returned EXCEPT ![c] = Some(stopRunning[c])]
    /\ events' = [events EXCEPT ![c] = Append(@, "push")]
    /\ endpoint' = Dropped(Captured(endpoint, c), c, "sharedEndpoint")
    /\ UNCHANGED <<provider, results, threadCount, accepted, command, readError,
                   stopRunning, locals, response, writes, generateCalls, running,
                   processVars, formatVars>>

\* Mutant: process reports a refused task to its caller by returning false.
PushRejectedReturnsFalse(c) ==
    /\ phase[c] = "pushing"
    /\ PoolFull
    /\ pushes' = [pushes EXCEPT ![c] = @ + 1]
    /\ phase' = [phase EXCEPT ![c] = "rejected"]
    /\ returned' = [returned EXCEPT ![c] = Some(FALSE)]
    /\ events' = [events EXCEPT ![c] = Append(@, "push")]
    /\ endpoint' = Dropped(Dropped(Captured(endpoint, c), c, "lambda"), c, "sharedEndpoint")
    /\ UNCHANGED <<provider, results, threadCount, accepted, command, readError,
                   stopRunning, locals, response, writes, generateCalls, queue,
                   running, processVars, formatVars>>

\* Mutant: process submits the task once more when the pool has refused it.
PushRejectedRetries(c) ==
    /\ phase[c] = "pushing"
    /\ PoolFull
    /\ pushes' = [pushes EXCEPT ![c] = @ + 1]
    /\ phase' = [phase EXCEPT ![c] = IF pushes[c] = 0 THEN "pushing" ELSE "rejected"]
    /\ returned' = [returned EXCEPT ![c] = IF pushes[c] = 0 THEN @ ELSE Some(stopRunning[c])]
    /\ events' = [events EXCEPT ![c] = Append(@, "push")]
    /\ endpoint' = IF pushes[c] = 0 THEN endpoint ELSE Dropped(endpoint, c, "sharedEndpoint")
    /\ UNCHANGED <<provider, results, threadCount, accepted, command, readError,
                   stopRunning, locals, response, writes, generateCalls, queue,
                   running, processVars, formatVars>>

\* mThreadPool.push refuses the task because the pool is full: the task, and with it
\* the endpoint and the command, is destroyed unrun; process returns stopRunning.
PushRejected(c) ==
    /\ phase[c] = "pushing"
    /\ PoolFull
    /\ pushes' = [pushes EXCEPT ![c] = @ + 1]
    /\ phase' = [phase EXCEPT ![c] = "rejected"]
    /\ returned' = [returned EXCEPT ![c] = Some(stopRunning[c])]
    /\ events' = [events EXCEPT ![c] = Append(@, "push")]
    /\ endpoint' = Dropped(Dropped(Captured(endpoint, c), c, "lambda"), c, "sharedEndpoint")
    /\ UNCHANGED <<provider, results, threadCount, accepted, command, readError,
                   stopRunning, locals, response, writes, generateCalls, queue,
                   running, processVars, formatVars>>

\* A worker takes the task of connection c off the queue and runs the lambda.
Dequeue(c) ==
    /\ phase[c] = "queued"
    /\ CanStart(c)
    /\ queue' = Tail(queue)
    /\ running' = running \cup {c}

-----------------------------------------------------------------------------
(* The task: the dispatch on command->type() and the handlers.  Here the reader      *)
(* decodes commands of the four types of CommandType only; the default branch of the *)
(* switch is ProcessDefault, further down.                                           *)

\* Mutant: processHello asks the Gfx Processor for a preview of the path it was sent
\* before it acknowledges.
ProcessHelloCallsProcessor(c) ==
    /\ Dequeue(c)
    /\ command[c][1].type = "HELLO"
    /\ generateCalls' =
           [generateCalls EXCEPT
               ![c] = Append(@, [path |-> Path, dimensions |-> <<GfxDimension(0, 0)>>])]
    /\ response' = [response EXCEPT ![c] = Some(CommandHelloResponse)]
    /\ phase' = [phase EXCEPT ![c] = "responding"]
    /\ events' = [events EXCEPT ![c] = Append(@, "start")]
    /\ UNCHANGED <<provider, endpoint, results, threadCount, accepted, command, readError,
                   stopRunning, returned, pushes, locals, writes, processVars,
                   formatVars>>

\* case HELLO: processHello builds the response, the write is next.
ProcessHello(c) ==
    /\ Dequeue(c)
    /\ command[c][1].type = "HELLO"
    /\ response' = [response EXCEPT ![c] = Some(CommandHelloResponse)]
    /\ phase' = [phase EXCEPT ![c] = "responding"]
    /\ events' = [events EXCEPT ![c] = Append(@, "start")]
    /\ UNCHANGED <<provider, endpoint, results, threadCount, accepted, command, readError,
                   stopRunning, returned, pushes, locals, writes, generateCalls,
                   processVars, formatVars>>

\* case SHUTDOWN: processShutDown builds the response, the write is next.
ProcessShutDown(c) ==
    /\ Dequeue(c)
    /\ command[c][1].type = "SHUTDOWN"
    /\ response' = [response EXCEPT ![c] = Some(CommandShutDownResponse)]
    /\ phase' = [phase EXCEPT ![c] = "responding"]
    /\ events' = [events EXCEPT ![c] = Append(@, "start")]
    /\ UNCHANGED <<provider, endpoint, results, threadCount, accepted, command, readError,
                   stopRunning, returned, pushes, locals, writes, generateCalls,
                   processVars, formatVars>>

\* case SUPPORT_FORMATS: processSupportFormats asks the processor for both lists.
ProcessSupportFormats(c) ==
    /\ Dequeue(c)
    /\ command[c][1].type = "SUPPORT_FORMATS"
    /\ response' = [response EXCEPT ![c] = Some(CommandSupportFormatsResponse(provider))]
    /\ phase' = [phase EXCEPT ![c] = "responding"]
    /\ events' = [events EXCEPT ![c] = Append(@, "start")]
    /\ UNCHANGED <<provider, endpoint, results, threadCount, accepted, command, readError,
                   stopRunning, returned, pushes, locals, writes, generateCalls,
                   processVars, formatVars>>

\* Mutant: the processor keeps the result of the task before; a task without dimensions
\* is answered with what is kept, if anything.
ProcessGfxEmptyReusesLast(c) ==
    /\ Dequeue(c)
    /\ command[c][1].type = "NEW_GFX"
    /\ DimensionsEmpty(command[c][1].Task)
    /\ LET kept == {d \in Conns : results[d] # None}
           res == IF kept = {}
                  THEN EmptyResult(command[c][1].Task)
                  ELSE results[CHOOSE d \in kept : \A e \in kept : e <= d][1]
       IN /\ results' = [results EXCEPT ![c] = Some(res)]
          /\ response' = [response EXCEPT ![c] = Some(CommandNewGfxResponse(res))]
    /\ phase' = [phase EXCEPT ![c] = "responding"]
    /\ events' = [events EXCEPT ![c] = Append(@, "start")]
    /\ UNCHANGED <<provider, endpoint, threadCount, accepted, command, readError, stopRunning,
                   returned, pushes, locals, writes, generateCalls, processVars,
                   formatVars>>

\* Mutant: a NewGfx command without dimensions is taken for a malformed command; the
\* handler logs it and ends without a response.
ProcessGfxEmptyDropped(c) ==
    /\ phase[c] = "queued"
    /\ CanStart(c)
    /\ queue' = Tail(queue)
    /\ command[c][1].type = "NEW_GFX"
    /\ DimensionsEmpty(command[c][1].Task)
    /\ phase' = [phase EXCEPT ![c] = "done"]
    /\ events' = [events EXCEPT ![c] = Append(@, "start")]
    /\ endpoint' = Dropped(endpoint, c, "lambda")
    /\ UNCHANGED <<provider, results, response, running, threadCount, accepted,
                   command, readError, stopRunning, returned, pushes, locals, writes,
                   generateCalls, processVars, formatVars>>

\* case NEW_GFX with an empty dimensions list: GfxProcessor::process returns at once
\* and processGfx builds the response from the result.
ProcessGfxEmpty(c) ==
    /\ Dequeue(c)
    /\ command[c][1].type = "NEW_GFX"
    /\ DimensionsEmpty(command[c][1].Task)
    /\ results' = [results EXCEPT ![c] = Some(EmptyResult(command[c][1].Task))]
    /\ response' =
           [response EXCEPT
               ![c] = Some(CommandNewGfxResponse(EmptyResult(command[c][1].Task)))]
    /\ phase' = [phase EXCEPT ![c] = "responding"]
    /\ events' = [events EXCEPT ![c] = Append(@, "start")]
    /\ UNCHANGED <<provider, endpoint, threadCount, accepted, command, readError, stopRunning,
                   returned, pushes, locals, writes, generateCalls, processVars,
                   formatVars>>

\* Mutant: GfxProcessor::process holds a lock around the provider, so a handler enters
\* generateImages only when no other handler is inside it.
ProcessGfxRenderLocked(c) ==
    /\ \A b \in Conns : phase[b] # "rendering"
    /\ Dequeue(c)
    /\ command[c][1].type = "NEW_GFX"
    /\ ~DimensionsEmpty(command[c][1].Task)
    /\ \E idx \in SortIndices(command[c][1].Task.Dimensions) :
        LET sorted == SortDimensions(command[c][1].Task.Dimensions, idx) IN
        /\ locals' =
               [locals EXCEPT ![c] = Some([indices |-> idx, sortedDimensions |-> sorted])]
        /\ generateCalls' =
               [generateCalls EXCEPT
                   ![c] = Append(@, [path |-> command[c][1].Task.Path,
                                     dimensions |-> sorted])]
    /\ phase' = [phase EXCEPT ![c] = "rendering"]
    /\ events' = [events EXCEPT ![c] = Append(@, "start")]
    /\ UNCHANGED <<provider, endpoint, results, threadCount, accepted, command, readError,
                   stopRunning, returned, pushes, response, writes, processVars,
                   formatVars>>

\* case NEW_GFX otherwise: GfxProcessor::process sorts the indices, builds the sorted
\* dimensions and enters generateImages.
ProcessGfxRender(c) ==
    /\ Dequeue(c)
    /\ command[c][1].type = "NEW_GFX"
    /\ ~DimensionsEmpty(command[c][1].Task)
    /\ \E idx \in SortIndices(command[c][1].Task.Dimensions) :
        LET sorted == SortDimensions(command[c][1].Task.Dimensions, idx) IN
        /\ locals' =
               [locals EXCEPT ![c] = Some([indices |-> idx, sortedDimensions |-> sorted])]
        /\ generateCalls' =
               [generateCalls EXCEPT
                   ![c] = Append(@, [path |-> command[c][1].Task.Path,
                                     dimensions |-> sorted])]
    /\ phase' = [phase EXCEPT ![c] = "rendering"]
    /\ events' = [events EXCEPT ![c] = Append(@, "start")]
    /\ UNCHANGED <<provider, endpoint, results, threadCount, accepted, command, readError,
                   stopRunning, returned, pushes, response, writes, processVars,
                   formatVars>>

\* Mutant: a task that is still rendering when the timeout runs out is cancelled; its
\* handler ends without a response.
GfxRenderedAborts(c) ==
    /\ phase[c] = "rendering"
    /\ locals' = [locals EXCEPT ![c] = None]
    /\ phase' = [phase EXCEPT ![c] = "done"]
    /\ running' = running \ {c}
    /\ endpoint' = Dropped(endpoint, c, "lambda")
    /\ UNCHANGED <<provider, events, results, response, threadCount, accepted, command,
                   readError, stopRunning, returned, pushes, writes, generateCalls,
                   queue, processVars, formatVars>>

\* generateImages returns: the images are scattered back, process returns SUCCESS and
\* processGfx builds the response from the result.
GfxRendered(c) ==
    /\ phase[c] = "rendering"
    /\ LET t == command[c][1].Task
           images == GenerateImages(t.Path, locals[c][1].sortedDimensions)
           res == ScatteredResult(t, locals[c][1].indices, images)
       IN /\ results' = [results EXCEPT ![c] = Some(res)]
          /\ response' = [response EXCEPT ![c] = Some(CommandNewGfxResponse(res))]
    /\ locals' = [locals EXCEPT ![c] = None]
    /\ phase' = [phase EXCEPT ![c] = "responding"]
    /\ UNCHANGED <<provider, endpoint, events, threadCount, accepted, command, readError,
                   stopRunning, returned, pushes, writes, generateCalls, queue,
                   running, processVars, formatVars>>

\* Mutant: the task writes to the endpoint process was last called with.
LatestEndpoint(c) == accepted

\* The endpoint the task of connection c writes to: sharedEndpoint, which the lambda
\* captured by value together with the command.
TaskEndpoint(c) == c

\* One writeCommand call: the response, the connection whose command it answers, the
\* timeout given and how the write ended.
WriteCall(c, ok) ==
    [response |-> response[c][1], request |-> c, timeout |-> WRITE_TIMEOUT, ok |-> ok]

\* Mutant: a handler whose write failed writes the response a second time before it
\* returns.
WriteResponseTwiceOnFailure(c) ==
    /\ phase[c] = "responding"
    /\ \E ok \in BOOLEAN :
        writes' = [writes EXCEPT
                      ![TaskEndpoint(c)] =
                          IF ok
                          THEN Append(@, WriteCall(c, ok))
                          ELSE @ \o <<WriteCall(c, ok), WriteCall(c, TRUE)>>]
    /\ events' = [events EXCEPT ![TaskEndpoint(c)] = Append(@, "write")]
    /\ response' = [response EXCEPT ![c] = None]
    /\ phase' = [phase EXCEPT ![c] = "done"]
    /\ running' = running \ {c}
    /\ endpoint' = Dropped(endpoint, c, "lambda")
    /\ UNCHANGED <<provider, results, threadCount, accepted, command, readError,
                   stopRunning, returned, pushes, locals, generateCalls, queue,
                   processVars, formatVars>>

\* Mutant: the handler writes again after a failed write.
WriteResponseRetry(c) ==
    /\ phase[c] = "responding"
    /\ \E ok \in BOOLEAN :
        /\ writes' = [writes EXCEPT ![TaskEndpoint(c)] = Append(@, WriteCall(c, ok))]
        /\ events' = [events EXCEPT ![TaskEndpoint(c)] = Append(@, "write")]
        /\ response' = [response EXCEPT ![c] = IF ok THEN None ELSE @]
        /\ phase' = [phase EXCEPT ![c] = IF ok THEN "done" ELSE @]
        /\ running' = IF ok THEN running \ {c} ELSE running
        /\ endpoint' = IF ok THEN Dropped(endpoint, c, "lambda") ELSE endpoint
    /\ UNCHANGED <<provider, results, threadCount, accepted, command, readError,
                   stopRunning, returned, pushes, locals, generateCalls, queue,
                   processVars, formatVars>>

\* Mutant: a handler holds its write back until every connection accepted before its
\* own has finished.
WriteResponseInOrder(c) ==
    /\ phase[c] = "responding"
    /\ \A b \in Conns : b < c => phase[b] \in {"done", "dropped", "rejected"}
    /\ \E ok \in BOOLEAN :
        writes' = [writes EXCEPT ![TaskEndpoint(c)] = Append(@, WriteCall(c, ok))]
    /\ events' = [events EXCEPT ![TaskEndpoint(c)] = Append(@, "write")]
    /\ response' = [response EXCEPT ![c] = None]
    /\ phase' = [phase EXCEPT ![c] = "done"]
    /\ running' = running \ {c}
    /\ endpoint' = Dropped(endpoint, c, "lambda")
    /\ UNCHANGED <<provider, results, threadCount, accepted, command, readError,
                   stopRunning, returned, pushes, locals, generateCalls, queue,
                   processVars, formatVars>>

\* writer.writeCommand(&response, WRITE_TIMEOUT): the one write of every handler.  It
\* succeeds or fails; either way the handler returns, the task ends and the worker is
\* free again.
WriteResponse(c) ==
    /\ phase[c] = "responding"
    /\ \E ok \in BOOLEAN :
        writes' = [writes EXCEPT ![TaskEndpoint(c)] = Append(@, WriteCall(c, ok))]
    /\ events' = [events EXCEPT ![TaskEndpoint(c)] = Append(@, "write")]
    /\ response' = [response EXCEPT ![c] = None]
    /\ phase' = [phase EXCEPT ![c] = "done"]
    /\ running' = running \ {c}
    /\ endpoint' = Dropped(endpoint, c, "lambda")
    /\ UNCHANGED <<provider, results, threadCount, accepted, command, readError,
                   stopRunning, returned, pushes, locals, generateCalls, queue,
                   processVars, formatVars>>

-----------------------------------------------------------------------------
(* A direct call of GfxProcessor::process *)

\* The dimensions list is empty: ERR, and the provider is not called.
ProcessEmpty ==
    /\ pc = "start"
    /\ DimensionsEmpty(task)
    /\ result' = Some(EmptyResult(task))
    /\ pc' = "returned"
    /\ UNCHANGED <<provider, serverVars, task, indices, sortedDimensions,
                   providerCalls, earlier, providerImages, loop, formatVars>>

\* Mutant: the sort also leaves the caller's dimensions in sorted order.
ProcessSortsCallersTask ==
    /\ pc = "start"
    /\ ~DimensionsEmpty(task)
    /\ \E idx \in StdSort(task.Dimensions, earlier) :
        /\ indices' = idx
        /\ sortedDimensions' = SortDimensions(task.Dimensions, idx)
        /\ task' = [task EXCEPT !.Dimensions = SortDimensions(task.Dimensions, idx)]
        /\ providerCalls' =
               Append(providerCalls,
                      [path |-> task.Path,
                       dimensions |-> SortDimensions(task.Dimensions, idx)])
    /\ pc' = "inProvider"
    /\ UNCHANGED <<provider, serverVars, result, earlier, providerImages, loop, formatVars>>

\* Sort the indices by descending width, build the sorted dimensions, call the provider.
ProcessSortAndCall ==
    /\ pc = "start"
    /\ ~DimensionsEmpty(task)
    /\ \E idx \in StdSort(task.Dimensions, earlier) :
        /\ indices' = idx
        /\ sortedDimensions' = SortDimensions(task.Dimensions, idx)
        /\ providerCalls' =
               Append(providerCalls,
                      [path |-> task.Path,
                       dimensions |-> SortDimensions(task.Dimensions, idx)])
    /\ pc' = "inProvider"
    /\ UNCHANGED <<provider, serverVars, task, result, earlier, providerImages, loop,
                   formatVars>>

\* The provider returns; the images go back to the caller's order; SUCCESS.
ProcessScatterAndReturn ==
    /\ pc = "inProvider"
    /\ result' =
           Some(ScatteredResult(task, indices, GenerateImages(task.Path, sortedDimensions)))
    /\ pc' = "returned"
    /\ UNCHANGED <<provider, serverVars, task, indices, sortedDimensions,
                   providerCalls, earlier, providerImages, loop, formatVars>>

\* process is called once more with the same task.  outputImages, indices and
\* sortedDimensions are locals of the call, so the new call starts with fresh ones;
\* GfxProcessor has no member that process assigns.
ProcessCallAgain ==
    /\ pc = "returned"
    /\ earlier = None
    /\ earlier' = Some([result |-> result[1], indices |-> indices,
                        providerCalls |-> providerCalls])
    /\ pc' = "start"
    /\ indices' = <<>>
    /\ sortedDimensions' = <<>>
    /\ result' = None
    /\ providerCalls' = <<>>
    /\ UNCHANGED <<provider, serverVars, task, providerImages, loop, formatVars>>

-----------------------------------------------------------------------------
(* A direct call of GfxProcessor::process over a provider that need not return one   *)
(* image per dimension; the scatter loop is taken one iteration at a time.           *)

\* n images as a provider may return them for the dimensions it was given: the image
\* of the dimension at each position, and further images beyond the last dimension.
ReturnedImages(path, dimensions, n) ==
    [j \in 1..n |->
        EncodedImage(path, dimensions[IF j <= Len(dimensions) THEN j ELSE Len(dimensions)], j)]

\* generateImages returns some number of images; outputImages is still all empty and
\* the loop is about to begin.
ProviderReturns ==
    /\ pc = "inProvider"
    /\ \E n \in 0..(Len(sortedDimensions) + MaxSurplus) :
           providerImages' = ReturnedImages(task.Path, sortedDimensions, n)
    /\ loop' = LoopStart(Len(task.Dimensions))
    /\ pc' = "scattering"
    /\ UNCHANGED <<provider, serverVars, task, indices, sortedDimensions, result,
                   providerCalls, earlier, formatVars>>

\* One iteration: outputImages[indices[i]] = std::move(images[i]).  While i is below
\* indices.size() the read and the write are the ones the permutation gives.  From
\* there on indices[i] is read past the end of the vector, which is undefined: the
\* value read may be any position, inside outputImages or not, and the process may go
\* on or die.
ScatterStep ==
    /\ pc = "scattering"
    /\ loop.i <= Len(providerImages)
    /\ IF loop.i <= Len(indices)
       THEN /\ loop' = [i |-> loop.i + 1,
                        outputImages |->
                            [loop.outputImages EXCEPT
                                ![indices[loop.i]] = providerImages[loop.i]],
                        reads |-> loop.reads \cup {loop.i},
                        writes |-> loop.writes \cup {indices[loop.i]}]
            /\ pc' = pc
       ELSE \E slot \in 1..(Len(loop.outputImages) + 1) :
                /\ loop' = [i |-> loop.i + 1,
                            outputImages |->
                                IF slot <= Len(loop.outputImages)
                                THEN [loop.outputImages EXCEPT
                                         ![slot] = providerImages[loop.i]]
                                ELSE loop.outputImages,
                            reads |-> loop.reads \cup {loop.i},
                            writes |-> loop.writes \cup {slot}]
                /\ pc' \in {"scattering", "crashed"}
    /\ UNCHANGED <<provider, serverVars, task, indices, sortedDimensions, result,
                   providerCalls, earlier, providerImages, formatVars>>

\* The loop has gone through all returned images: return SUCCESS with outputImages.
ScatterReturn ==
    /\ pc = "scattering"
    /\ loop.i > Len(providerImages)
    /\ result' = Some(GfxTaskResult(loop.outputImages, SUCCESS))
    /\ pc' = "returned"
    /\ UNCHANGED <<provider, serverVars, task, indices, sortedDimensions,
                   providerCalls, earlier, providerImages, loop, formatVars>>

-----------------------------------------------------------------------------
(* Direct calls of GfxProcessor::supportedformats and supportedvideoformats *)

CallSupportedFormats ==
    /\ formatsOut = None
    /\ formatsOut' = Some(supportedformats(provider.formats))
    /\ UNCHANGED <<provider, serverVars, processVars, videoOut>>

CallSupportedVideoFormats ==
    /\ videoOut = None
    /\ videoOut' = Some(supportedvideoformats(provider.videoformats))
    /\ UNCHANGED <<provider, serverVars, processVars, formatsOut>>

-----------------------------------------------------------------------------
(* Specifications *)

ServerInit ==
    /\ accepted = 0
    /\ phase = [c \in Conns |-> "waiting"]
    /\ command = [c \in Conns |-> None]
    /\ readError = [c \in Conns |-> "none"]
    /\ stopRunning = [c \in Conns |-> FALSE]
    /\ returned = [c \in Conns |-> None]
    /\ pushes = [c \in Conns |-> 0]
    /\ locals = [c \in Conns |-> None]
    /\ results = [c \in Conns |-> None]
    /\ response = [c \in Conns |-> None]
    /\ writes = [c \in Conns |-> <<>>]
    /\ generateCalls = [c \in Conns |-> <<>>]
    /\ events = [c \in Conns |-> <<>>]
    /\ endpoint = [c \in Conns |-> NoEndpoint]
    /\ threadCount \in 1..MaxThreads
    /\ queue = <<>>
    /\ running = {}

\* No server: a pool of one thread that is given nothing.
ServerIdle ==
    /\ ServerInit
    /\ threadCount = 1

ProcessIdle ==
    /\ task = GfxTask(Path, <<>>)
    /\ pc = "returned"
    /\ indices = <<>>
    /\ sortedDimensions = <<>>
    /\ result = None
    /\ providerCalls = <<>>
    /\ earlier = None
    /\ providerImages = <<>>
    /\ loop = NoLoop

FormatsIdle ==
    /\ formatsOut = None
    /\ videoOut = None

\* The server: a RequestProcessor over a provider, after construction.
Init ==
    /\ provider = ServerProvider
    /\ ServerInit
    /\ ProcessIdle
    /\ FormatsIdle

Next ==
    \E c \in Conns :
        \/ Accept(c)
        \/ ReadFails(c)
        \/ ReadSucceeds(c)
        \/ PushAccepted(c)
        \/ PushRejected(c)
        \/ ProcessHello(c)
        \/ ProcessShutDown(c)
        \/ ProcessSupportFormats(c)
        \/ ProcessGfxEmpty(c)
        \/ ProcessGfxRender(c)
        \/ GfxRendered(c)
        \/ WriteResponse(c)

Spec == Init /\ [][Next]_vars

\* What the worker that holds, or will take, the task of connection c does next.
Worker(c) ==
    \/ ProcessHello(c)
    \/ ProcessShutDown(c)
    \/ ProcessSupportFormats(c)
    \/ ProcessGfxEmpty(c)
    \/ ProcessGfxRender(c)
    \/ GfxRendered(c)
    \/ WriteResponse(c)

\* The workers are scheduled fairly: a free worker takes the oldest queued task, and
\* generateImages and writeCommand (bounded by WRITE_TIMEOUT) come back.  Nothing is
\* assumed of the accept loop or of the peers.
FairWorkers == \A c \in Conns : WF_vars(Worker(c))

\* The server with fairly scheduled workers.
SpecFair == Init /\ [][Next]_vars /\ FairWorkers

\* GfxProcessor::process called with any task.
InitProcess ==
    /\ provider = ServerProvider
    /\ ServerIdle
    /\ FormatsIdle
    /\ task \in Tasks
    /\ pc = "start"
    /\ indices = <<>>
    /\ sortedDimensions = <<>>
    /\ result = None
    /\ providerCalls = <<>>
    /\ earlier = None
    /\ providerImages = <<>>
    /\ loop = NoLoop

NextProcess ==
    ProcessEmpty \/ ProcessSortAndCall \/ ProcessScatterAndReturn \/ ProcessCallAgain

SpecProcess == InitProcess /\ [][NextProcess]_vars

\* GfxProcessor::process called with any task over a provider that returns any number
\* of images.
NextProvider ==
    ProcessEmpty \/ ProcessSortAndCall \/ ProviderReturns \/ ScatterStep \/ ScatterReturn

SpecProvider == InitProcess /\ [][NextProvider]_vars

\* supportedformats and supportedvideoformats called over any provider.
InitFormats ==
    /\ provider \in Providers
    /\ ServerIdle
    /\ ProcessIdle
    /\ FormatsIdle

NextFormats == CallSupportedFormats \/ CallSupportedVideoFormats

SpecFormats == InitFormats /\ [][NextFormats]_vars

\* processSupportFormats called directly, over any provider: it asks the processor for
\* both lists, fills the response and writes it on the endpoint.
CallProcessSupportFormats ==
    /\ writes[1] = <<>>
    /\ formatsOut' = Some(supportedformats(provider.formats))
    /\ videoOut' = Some(supportedvideoformats(provider.videoformats))
    /\ \E ok \in BOOLEAN :
        writes' = [writes EXCEPT ![1] = <<[response |-> CommandSupportFormatsResponse(provider),
                                          request |-> 1,
                                          timeout |-> WRITE_TIMEOUT,
                                          ok |-> ok]>>]
    /\ UNCHANGED <<provider, accepted, phase, command, readError, stopRunning, returned,
                   pushes, locals, results, response, generateCalls, events, endpoint,
                   threadCount, queue, running, processVars>>

NextSupportFormats ==
    CallSupportedFormats \/ CallSupportedVideoFormats \/ CallProcessSupportFormats

\* supportedformats, supportedvideoformats and processSupportFormats called over any
\* provider.
SpecSupportFormats == InitFormats /\ [][NextSupportFormats]_vars

-----------------------------------------------------------------------------
(* The dispatch over every value command->type() may have.  The responses are       *)
(* commands too: the handlers hand them to writeCommand as such, and the switch has  *)
(* a default branch for the types it has no case for.                                *)

\* Type values the switch has no case for.
OtherCommandTypes == {"HELLO_RESPONSE"}

\* readCommand comes back with a command of a type the switch has no case for:
\* stopRunning is computed, the push is next.
ReadOtherType(c) ==
    /\ phase[c] = "reading"
    /\ \E t \in OtherCommandTypes :
        /\ command' = [command EXCEPT ![c] = Some([type |-> t])]
        /\ stopRunning' = [stopRunning EXCEPT ![c] = IsShutdown([type |-> t])]
    /\ phase' = [phase EXCEPT ![c] = "pushing"]
    /\ events' = [events EXCEPT ![c] = Append(@, "read")]
    /\ endpoint' = Moved(endpoint, c, "endpoint", "sharedEndpoint")
    /\ UNCHANGED <<provider, results, threadCount, accepted, readError, returned,
                   pushes, locals, response, writes, generateCalls, queue, running,
                   processVars, formatVars>>

\* default: break.  A worker takes the task, no handler is called, the lambda returns
\* and the worker is free again.
ProcessDefault(c) ==
    /\ phase[c] = "queued"
    /\ CanStart(c)
    /\ command[c][1].type \notin CommandType
    /\ queue' = Tail(queue)
    /\ phase' = [phase EXCEPT ![c] = "done"]
    /\ events' = [events EXCEPT ![c] = Append(@, "start")]
    /\ endpoint' = Dropped(endpoint, c, "lambda")
    /\ UNCHANGED <<provider, results, threadCount, accepted, command, readError,
                   stopRunning, returned, pushes, locals, response, writes,
                   generateCalls, running, processVars, formatVars>>

NextDispatch ==
    \/ Next
    \/ \E c \in Conns : ReadOtherType(c)
    \/ \E c \in Conns : ProcessDefault(c)

\* The server reading commands of every type value.
SpecDispatch == Init /\ [][NextDispatch]_vars

-----------------------------------------------------------------------------
(* Claims about GfxProcessor::process, under SpecProcess *)

Returned == pc = "returned" /\ result # None

\* How often d occurs in the sequence s.
Count(s, d) == Cardinality({i \in DOMAIN s : s[i] = d})

SameMultiset(s, t) ==
    /\ Len(s) = Len(t)
    /\ \A i \in DOMAIN s : Count(s, s[i]) = Count(t, s[i])

WidthsNonIncreasing(s) == \A i, j \in DOMAIN s : i < j => s[i].w >= s[j].w

\* C1: for a task with N > 0 dimensions the result holds N images, and images[i] is the
\* image the provider produced for dimensions[i]: every slot holds the output of another
\* position of the provider's call, and that position was given dimensions[i].
C1_ImagesInCallerOrder ==
    (Returned /\ Len(task.Dimensions) > 0) =>
        /\ Len(providerCalls) = 1
        /\ LET call == providerCalls[1]
               produced == GenerateImages(call.path, call.dimensions)
               images == result[1].OutputImages
           IN /\ Len(images) = Len(task.Dimensions)
              /\ \A i \in 1..Len(task.Dimensions) :
                    \E j \in 1..Len(produced) :
                        /\ images[i] = produced[j]
                        /\ call.dimensions[j] = task.Dimensions[i]
              /\ \A i, k \in 1..Len(task.Dimensions) : i # k => images[i] # images[k]

\* C1 witness: a task of three dimensions came back, and the provider was given them in
\* another order than the caller's.
C1_Witness ==
    /\ Returned
    /\ Len(task.Dimensions) = 3
    /\ providerCalls # <<>>
    /\ providerCalls[1].dimensions # task.Dimensions

\* C5: with an empty dimensions list process returns ERR and no images, and the provider
\* is not called.
C5_EmptyDimensionsIsErr ==
    Len(task.Dimensions) = 0 =>
        /\ providerCalls = <<>>
        /\ pc # "inProvider"
        /\ Returned =>
            /\ result[1].ProcessStatus = ERR
            /\ Len(result[1].OutputImages) = 0

\* C5 witness: process has returned for a task without dimensions.
C5_Witness == Returned /\ Len(task.Dimensions) = 0

\* C6: for a non-empty task the provider is called exactly once, with a permutation of
\* the requested dimensions whose widths do not increase; the request
\* [(50,50),(100,100),(75,75)] reaches it as [(100,100),(75,75),(50,50)].
C6_ProviderCalledOnceDescending ==
    /\ Len(providerCalls) <= 1
    /\ (pc # "start" /\ Len(task.Dimensions) > 0) =>
        /\ Len(providerCalls) = 1
        /\ providerCalls[1].path = task.Path
        /\ SameMultiset(providerCalls[1].dimensions, task.Dimensions)
        /\ WidthsNonIncreasing(providerCalls[1].dimensions)
        /\ task = ExampleTask =>
               providerCalls[1].dimensions =
                   <<GfxDimension(100, 100), GfxDimension(75, 75), GfxDimension(50, 50)>>

\* C6 witness: the request [(50,50),(100,100),(75,75)] has been processed.
C6_Witness ==
    /\ Returned
    /\ task = ExampleTask
    /\ Len(providerCalls) = 1

-----------------------------------------------------------------------------
(* Claims about GfxProcessor::supportedformats, under SpecFormats *)

\* ".tif.exr.pic.pct.tiff.pict"
TifExrPicPctTiffPict ==
    <<".", "t", "i", "f">> \o <<".", "e", "x", "r">> \o <<".", "p", "i", "c">>
    \o <<".", "p", "c", "t">> \o <<".", "t", "i", "f", "f">> \o <<".", "p", "i", "c", "t">>

\* C9: supportedformats returns the provider's list followed by
\* ".tif.exr.pic.pct.tiff.pict" when the provider reports a list (".jpg.png" gives
\* ".jpg.png.tif.exr.pic.pct.tiff.pict"), and "" when the provider reports null.
C9_FormatsPlusSuffixOrEmpty ==
    formatsOut # None =>
        /\ provider.formats # None =>
               formatsOut[1] = provider.formats[1] \o TifExrPicPctTiffPict
        /\ provider.formats = Some(<<".", "j", "p", "g", ".", "p", "n", "g">>) =>
               formatsOut[1] =
                   <<".", "j", "p", "g", ".", "p", "n", "g", ".", "t", "i", "f",
                     ".", "e", "x", "r", ".", "p", "i", "c", ".", "p", "c", "t",
                     ".", "t", "i", "f", "f", ".", "p", "i", "c", "t">>
        /\ provider.formats = None => formatsOut[1] = <<>>

\* C9 witness: supportedformats has returned over a provider reporting ".jpg.png".
C9_Witness ==
    /\ formatsOut # None
    /\ provider.formats = Some(JpgPng)

\* C10: when the provider's list is present but of length zero, supportedformats
\* returns the empty string, never the suffix alone.
C10_EmptyListGivesEmpty ==
    (formatsOut # None /\ provider.formats = Some(<<>>)) => formatsOut[1] = <<>>

-----------------------------------------------------------------------------
(* Claims about RequestProcessor, under Spec *)

\* The writeCommand calls on connection c that succeeded.
Written(c) == {k \in DOMAIN writes[c] : writes[c][k].ok}

\* The NewGfxResponses handed to writeCommand on connection c.
GfxWrites(c) == {k \in DOMAIN writes[c] : writes[c][k].response.type = "NEW_GFX_RESPONSE"}

\* C2: no connection gets more than one response, and a response is written on a
\* connection only after its command was read successfully.
C2_AtMostOneResponse ==
    \A c \in Conns :
        /\ Len(writes[c]) <= 1
        /\ Cardinality(Written(c)) <= 1
        /\ (writes[c] # <<>> \/ response[c] # None) =>
               /\ command[c] # None
               /\ readError[c] = "none"

\* C2 witness: a connection whose command was read has got its one response.
C2_Witness ==
    \E c \in Conns :
        /\ phase[c] = "done"
        /\ command[c] # None
        /\ Cardinality(Written(c)) = 1

\* C3: when the read fails, whatever the cause, process returns false, nothing is
\* submitted to the pool and no response is written on the connection.
C3_ReadFailureDropsConnection ==
    \A c \in Conns :
        readError[c] # "none" =>
            /\ readError[c] \in {"short", "malformed", "version", "timeout"}
            /\ phase[c] = "dropped"
            /\ returned[c] = Some(FALSE)
            /\ command[c] = None
            /\ pushes[c] = 0
            /\ c \notin running
            /\ \A k \in DOMAIN queue : queue[k] # c
            /\ response[c] = None
            /\ writes[c] = <<>>

\* C3 witness: the first connection's read timed out, the second connection was served
\* to the end after that, and the third connection's read failed on the version tag.
C3_Witness ==
    /\ readError[1] = "timeout"
    /\ phase[2] = "done"
    /\ readError[3] = "version"
    /\ returned[1] = Some(FALSE)

\* C4: process returns true exactly when a command was read and it is SHUTDOWN.
C4_ReturnsTrueIffShutdown ==
    \A c \in Conns :
        returned[c] # None =>
            (returned[c][1] <=> (command[c] # None /\ command[c][1].type = "SHUTDOWN"))

\* C4 witness: process has returned true for one connection, false for a connection
\* whose command was read, and false for a connection whose read failed.
C4_Witness ==
    /\ \E c \in Conns : returned[c] = Some(TRUE)
    /\ \E c \in Conns : returned[c] = Some(FALSE) /\ command[c] # None
    /\ \E c \in Conns : returned[c] = Some(FALSE) /\ command[c] = None

\* C7: the NewGfxResponse carries error_code 0 and "OK" exactly when the processor
\* returned SUCCESS, error_code 1 and "ERROR" exactly when it returned ERR, and the
\* processor's images as they are.
C7_GfxResponseMapsResult ==
    \A c \in Conns :
        \A k \in GfxWrites(c) :
            /\ results[c] # None
            /\ LET r == writes[c][k].response
                   res == results[c][1]
               IN /\ res.ProcessStatus \in {SUCCESS, ERR}
                  /\ (r.ErrorCode = 0 /\ r.ErrorText = "OK") <=> res.ProcessStatus = SUCCESS
                  /\ (r.ErrorCode = 1 /\ r.ErrorText = "ERROR") <=> res.ProcessStatus = ERR
                  /\ r.Images = res.OutputImages

\* C7 witness: one connection got a SUCCESS response and another an ERR response.
C7_Witness ==
    /\ \E c \in Conns : \E k \in GfxWrites(c) :
           writes[c][k].ok /\ writes[c][k].response.ErrorText = "OK"
    /\ \E c \in Conns : \E k \in GfxWrites(c) :
           writes[c][k].ok /\ writes[c][k].response.ErrorText = "ERROR"

\* C8: every NewGfxResponse written holds as many images as the NewGfx command read on
\* the connection has dimensions.
C8_ImagesLengthIsDimensionsLength ==
    \A c \in Conns :
        \A k \in GfxWrites(c) :
            /\ command[c] # None
            /\ command[c][1].type = "NEW_GFX"
            /\ Len(writes[c][k].response.Images) = Len(command[c][1].Task.Dimensions)

\* C8 witness: a response with three images and a response with none were written.
C8_Witness ==
    /\ \E c \in Conns : \E k \in GfxWrites(c) :
           /\ writes[c][k].ok
           /\ writes[c][k].response.ErrorCode = 0
           /\ Len(writes[c][k].response.Images) = 3
    /\ \E c \in Conns : \E k \in GfxWrites(c) :
           /\ writes[c][k].ok
           /\ writes[c][k].response.ErrorCode = 1
           /\ Len(writes[c][k].response.Images) = 0


\* The response type that answers a command type.
ResponseTypeOf(commandType) ==
    CASE commandType = "HELLO" -> "HELLO_RESPONSE"
      [] commandType = "SHUTDOWN" -> "SHUTDOWN_RESPONSE"
      [] commandType = "NEW_GFX" -> "NEW_GFX_RESPONSE"
      [] commandType = "SUPPORT_FORMATS" -> "SUPPORT_FORMATS_RESPONSE"

\* C11: the response built for, and written on, a connection is the variant that
\* answers the kind of the command read on that connection.
C11_ResponseMatchesCommand ==
    \A c \in Conns :
        /\ response[c] # None =>
               response[c][1].type = ResponseTypeOf(command[c][1].type)
        /\ \A k \in DOMAIN writes[c] :
               /\ command[c] # None
               /\ writes[c][k].response.type = ResponseTypeOf(command[c][1].type)

\* C11 witness: a Shutdown, a NewGfx and a SupportFormats command have each been
\* answered on their connections.
C11_Witness ==
    \A t \in {"SHUTDOWN", "NEW_GFX", "SUPPORT_FORMATS"} :
        \E c \in Conns :
            /\ command[c] # None
            /\ command[c][1].type = t
            /\ Written(c) # {}

\* C12: whatever the interleaving of the pool's tasks, every write on an endpoint
\* carries the response computed for the command read from that endpoint; a
\* NewGfxResponse carries the images the processor returned for that command.
C12_ResponseGoesToItsEndpoint ==
    \A e \in Conns :
        \A k \in DOMAIN writes[e] :
            /\ writes[e][k].request = e
            /\ k \in GfxWrites(e) =>
                   /\ results[e] # None
                   /\ writes[e][k].response.Images = results[e][1].OutputImages

\* C12 witness: two NewGfx tasks were in the workers' hands at once; the later
\* connection has got its response while the earlier one is still in generateImages.
C12_Witness ==
    \E c, d \in Conns :
        /\ c < d
        /\ phase[c] = "rendering"
        /\ command[d] # None
        /\ command[d][1].type = "NEW_GFX"
        /\ Written(d) # {}

\* The phases of a connection whose task process has handed to the pool.
Submitted == {"queued", "rendering", "responding", "done", "rejected"}

\* C13: process returns the shutdown flag right after submitting the task, without
\* waiting for it: from the moment the task is with the pool, whether it is queued,
\* running or finished, process has returned, and the value is true exactly for a
\* SHUTDOWN command.
C13_ReturnsWithoutWaiting ==
    \A c \in Conns :
        phase[c] \in Submitted =>
            /\ returned[c] # None
            /\ returned[c][1] = (command[c][1].type = "SHUTDOWN")

\* C13 witness: process has returned true for a SHUTDOWN command whose task is still
\* queued, or running before its write, and nothing has been written to the connection.
C13_Witness ==
    /\ \E c \in Conns :
        /\ returned[c] = Some(TRUE)
        /\ command[c][1].type = "SHUTDOWN"
        /\ phase[c] = "queued"
        /\ writes[c] = <<>>
    /\ \E c \in Conns :
        /\ returned[c] = Some(TRUE)
        /\ command[c][1].type = "SHUTDOWN"
        /\ phase[c] = "responding"
        /\ writes[c] = <<>>

\* A SHUTDOWN command was read from a connection before c.
AfterShutdown(c) ==
    \E d \in Conns : d < c /\ command[d] # None /\ command[d][1].type = "SHUTDOWN"

\* Connection c carries, or may yet carry, a HELLO command.
HelloOrUnread(c) == command[c] = None \/ command[c][1].type = "HELLO"

\* C14: handling SHUTDOWN changes no state of the processor or the pool.  A connection
\* that comes after a SHUTDOWN, whether that one is queued, running or done, can take
\* every step under the conditions of any connection: it is accepted when the accept
\* loop is free, read, pushed when the pool has room, started when a worker is free,
\* written, and what a HELLO gets written is the HelloResponse.
C14_HelloAfterShutdownAsBefore ==
    \A c \in Conns :
        AfterShutdown(c) /\ HelloOrUnread(c) =>
            /\ phase[c] = "waiting" /\ c = accepted + 1 /\ ~InProcess
                   => ENABLED Accept(c)
            /\ phase[c] = "reading" => ENABLED ReadSucceeds(c)
            /\ phase[c] = "pushing" /\ ~PoolFull => ENABLED PushAccepted(c)
            /\ phase[c] = "queued" /\ CanStart(c) => ENABLED ProcessHello(c)
            /\ phase[c] = "responding" =>
                   /\ response[c] = Some(CommandHelloResponse)
                   /\ ENABLED WriteResponse(c)
            /\ phase[c] = "done" =>
                   /\ Len(writes[c]) = 1
                   /\ writes[c][1].response = CommandHelloResponse

\* C14 witness: a HELLO has its HelloResponse written on a connection that came after
\* a SHUTDOWN which is fully handled, and after one whose handler is still running.
C14_Witness ==
    \E c \in Conns :
        /\ command[c] # None
        /\ command[c][1].type = "HELLO"
        /\ Written(c) # {}
        /\ writes[c][1].response = CommandHelloResponse
        /\ \A p \in {"responding", "done"} :
               \E d \in Conns :
                   /\ d < c
                   /\ command[d] # None
                   /\ command[d][1].type = "SHUTDOWN"
                   /\ phase[d] = p

\* s is an initial part of t.
IsPrefix(s, t) == Len(s) <= Len(t) /\ \A i \in DOMAIN s : s[i] = t[i]

\* The events of a connection whose command was read and answered, in order.
ReadPushStartWrite == <<"read", "push", "start", "write">>

\* C15: on every connection the events come in the order read completed, task
\* submitted, handler started, response written.  Every write call is one of these
\* write events, so no write precedes the read or the dispatch of its connection.
C15_ReadThenDispatchThenWrite ==
    \A c \in Conns :
        /\ \/ IsPrefix(events[c], ReadPushStartWrite)
           \/ events[c] = <<"readFailed">>
        /\ Len(writes[c]) = Cardinality({i \in DOMAIN events[c] : events[c][i] = "write"})
        /\ writes[c] # <<>> => command[c] # None /\ pushes[c] = 1

\* C15 witness: a connection has gone through all four events and its write was made.
C15_Witness ==
    \E c \in Conns :
        /\ events[c] = ReadPushStartWrite
        /\ Len(writes[c]) = 1
        /\ phase[c] = "done"

\* The connections whose command handler is executing on a worker.
HandlersRunning == {c \in Conns : phase[c] \in {"rendering", "responding"}}

\* C16: the number of command handlers executing at the same time is at most the
\* threadCount given to the constructor, however many connections were processed.
C16_AtMostThreadCountHandlers ==
    /\ running = HandlersRunning
    /\ Cardinality(HandlersRunning) <= threadCount

\* C16 witness: threadCount handlers are executing, one of them inside generateImages,
\* while another accepted task waits in the queue for a worker.
C16_Witness ==
    /\ Cardinality(HandlersRunning) = threadCount
    /\ \E c \in HandlersRunning : phase[c] = "rendering"
    /\ queue # <<>>

\* C17: queued plus running tasks are at most maxQueueSize.
C17_LoadAtMostMaxQueueSize ==
    /\ PoolLoad <= MaxQueueSize
    /\ \A c \in Conns : phase[c] = "queued" <=> \E k \in DOMAIN queue : queue[k] = c
    /\ \A j, k \in DOMAIN queue : queue[j] = queue[k] => j = k

\* C17 witness: the pool holds maxQueueSize tasks, some queued and some running, and
\* a task pushed while it was full is not among them.
C17_Witness ==
    /\ PoolLoad = MaxQueueSize
    /\ queue # <<>>
    /\ running # {}
    /\ \E c \in Conns : phase[c] = "rejected"

\* The handler of connection c ran to its end and made its one write call.
HandlerFinished(c) == phase[c] = "done" /\ Len(writes[c]) = 1

\* C18: with fairly scheduled workers every task the pool accepted eventually runs its
\* handler to the end and attempts its response write; nothing cancels a task that is
\* queued or rendering.
C18_AcceptedTaskRunsToItsWrite ==
    \A c \in Conns : (phase[c] \in {"queued", "rendering"}) ~> HandlerFinished(c)

\* C18 witness: a NewGfx task that went through generateImages has made its write
\* attempt, which failed, and an earlier accepted task has finished as well.
C18_Witness ==
    \E c, d \in Conns :
        /\ d < c
        /\ HandlerFinished(d)
        /\ HandlerFinished(c)
        /\ generateCalls[c] # <<>>
        /\ ~writes[c][1].ok

\* Connection c carries a NewGfx command whose dimensions list is empty.
EmptyGfx(c) ==
    /\ command[c] # None
    /\ command[c][1].type = "NEW_GFX"
    /\ Len(command[c][1].Task.Dimensions) = 0

\* The response to a NewGfx command without dimensions.
ErrResponse ==
    [type |-> "NEW_GFX_RESPONSE", ErrorCode |-> 1, ErrorText |-> "ERROR", Images |-> <<>>]

\* C19: a NewGfx command with an empty dimensions list is no protocol error.  Its read
\* is not a failure, its handler builds a NewGfxResponse with error_code 1, error_text
\* "ERROR" and no images without calling the provider, and when the handler has ended
\* that response is the one thing written to the connection.
C19_EmptyDimensionsGetsErrResponse ==
    \A c \in Conns :
        EmptyGfx(c) =>
            /\ readError[c] = "none"
            /\ generateCalls[c] = <<>>
            /\ phase[c] # "dropped"
            /\ phase[c] = "responding" => response[c] = Some(ErrResponse)
            /\ phase[c] = "done" =>
                   /\ Len(writes[c]) = 1
                   /\ writes[c][1].response = ErrResponse

\* C19 witness: a connection whose NewGfx command had no dimensions received the
\* response.
C19_Witness ==
    \E c \in Conns :
        /\ EmptyGfx(c)
        /\ phase[c] = "done"
        /\ writes[c][1].ok
        /\ writes[c][1].response = ErrResponse

\* This step is a protocol error on connection c: its read fails, or a write of its
\* response fails.
ProtocolError(c) ==
    \/ readError[c] = "none" /\ readError'[c] # "none"
    \/ /\ Len(writes'[c]) = Len(writes[c]) + 1
       /\ ~writes'[c][Len(writes'[c])].ok

\* Everything the server holds for connection d.
ConnectionState(d) ==
    <<phase[d], command[d], readError[d], stopRunning[d], returned[d], pushes[d],
      locals[d], results[d], response[d], writes[d], generateCalls[d], events[d]>>

\* C20: a protocol error on one connection touches that connection only.  The step
\* leaves the provider behind the processor, the pool's configuration and its queue as
\* they are, frees at most the worker of the failing connection, and changes nothing
\* the server holds for any other connection, whatever phase that one is in.
C20_ProtocolErrorIsLocal ==
    [][\A c \in Conns :
          ProtocolError(c) =>
              /\ provider' = provider
              /\ threadCount' = threadCount
              /\ queue' = queue
              /\ running' = running \ {c}
              /\ \A d \in Conns \ {c} : ConnectionState(d)' = ConnectionState(d)]_vars

\* C20 witness: a connection got its own response written although the read of a
\* connection before it failed and the write of a connection after it failed, or the
\* other way round.
C20_Witness ==
    \E b, c, d \in Conns :
        /\ b < c /\ c < d
        /\ \/ readError[b] # "none" /\ writes[d] # <<>> /\ ~writes[d][1].ok
           \/ readError[d] # "none" /\ writes[b] # <<>> /\ ~writes[b][1].ok
        /\ Written(c) # {}
        /\ writes[c][1].request = c
        /\ writes[c][1].response.type = ResponseTypeOf(command[c][1].type)

-----------------------------------------------------------------------------
(* Further claims about GfxProcessor::process, under SpecProcess *)

\* C21: a second call of process with the same task and a deterministic provider
\* returns the same status and the same images in the same order as the first; it
\* starts from fresh locals and gives the provider the same arguments.
C21_SecondCallSameResult ==
    earlier # None =>
        /\ pc = "start" => indices = <<>> /\ sortedDimensions = <<>> /\ result = None
        /\ pc # "start" => providerCalls = earlier[1].providerCalls
        /\ Returned =>
               /\ result[1].ProcessStatus = earlier[1].result.ProcessStatus
               /\ result[1].OutputImages = earlier[1].result.OutputImages

\* C21 witness: the second call has returned SUCCESS for a task of three dimensions
\* that the sort had to reorder.
C21_Witness ==
    /\ earlier # None
    /\ Returned
    /\ result[1].ProcessStatus = SUCCESS
    /\ Len(task.Dimensions) = 3
    /\ providerCalls[1].dimensions # task.Dimensions

\* C26: whichever order the sort leaves dimensions of equal width in, the result is
\* right: for every index permutation that orders the dimensions by non-increasing
\* width, not only the one the returned call took, the scatter puts at images[i] the
\* image the provider made at the position where it was given dimensions[i].
C26_AnyTieOrderSameResult ==
    (Returned /\ earlier = None /\ Len(task.Dimensions) > 0) =>
        \A idx \in SortIndices(task.Dimensions) :
            LET sorted == SortDimensions(task.Dimensions, idx)
                produced == GenerateImages(task.Path, sorted)
                res == ScatteredResult(task, idx, produced)
            IN /\ Len(res.OutputImages) = Len(task.Dimensions)
               /\ res.ProcessStatus = result[1].ProcessStatus
               /\ \A j \in DOMAIN idx :
                      /\ res.OutputImages[idx[j]] = produced[j]
                      /\ sorted[j] = task.Dimensions[idx[j]]

\* C26 witness: process has returned for a task in which two different dimensions have
\* the same width, so that the sort could have left them either way round.
C26_Witness ==
    /\ Returned
    /\ Cardinality(SortIndices(task.Dimensions)) > 1
    /\ \E i, j \in DOMAIN task.Dimensions :
           /\ task.Dimensions[i].w = task.Dimensions[j].w
           /\ task.Dimensions[i].h # task.Dimensions[j].h

\* The slots of the request that ask for dimension d.
SlotsOf(d) == {i \in DOMAIN task.Dimensions : task.Dimensions[i] = d}

\* C27: duplicate dimensions are not merged.  A dimension that is requested k times is
\* given to the provider k times, and each of its k result slots holds the image of
\* another of those k positions of the provider's call.
C27_DuplicatesHonoredIndependently ==
    (pc # "start" /\ Len(task.Dimensions) > 0) =>
        LET call == providerCalls[1]
            produced == GenerateImages(call.path, call.dimensions)
        IN \A i \in DOMAIN task.Dimensions :
               LET d == task.Dimensions[i]
                   positions == {j \in DOMAIN call.dimensions : call.dimensions[j] = d}
               IN /\ Cardinality(positions) = Cardinality(SlotsOf(d))
                  /\ Returned =>
                         {result[1].OutputImages[k] : k \in SlotsOf(d)}
                             = {produced[j] : j \in positions}

\* C27 witness: process has returned for a task that asks for one dimension twice and
\* for another once, and the three slots hold three different images.
C27_Witness ==
    /\ Returned
    /\ \E i \in DOMAIN task.Dimensions : Cardinality(SlotsOf(task.Dimensions[i])) = 2
    /\ \E i \in DOMAIN task.Dimensions : Cardinality(SlotsOf(task.Dimensions[i])) = 1
    /\ Cardinality({result[1].OutputImages[k] : k \in DOMAIN task.Dimensions}) = 3

\* The slots of the returned result that are still the empty string they began as.
EmptySlots == {i \in DOMAIN result[1].OutputImages : result[1].OutputImages[i] = <<>>}

-----------------------------------------------------------------------------
(* Claims about the scatter loop of GfxProcessor::process, under SpecProvider *)

\* C29: for every number of images the provider returns, fewer than, equal to or more
\* than the N requested dimensions, the scatter loop reads entries of indices at
\* positions below N only and writes slots of outputImages below N only.  (Positions
\* here count from 1, so below N in the source is at most N here.)
C29_ScatterStaysInBounds ==
    /\ \A position \in loop.reads : position <= Len(indices)
    /\ \A slot \in loop.writes : slot <= Len(task.Dimensions)

-----------------------------------------------------------------------------
(* Further claims about RequestProcessor, under Spec *)

\* The frames whose version tag is above the latest version of this build.
NewerFrames ==
    [delay : {0, READ_TIMEOUT + 1}, complete : BOOLEAN, wellformed : BOOLEAN,
     version : {v \in {V_1, UNSUPPORTED} : v > V_1}, command : Commands]

\* C22: the latest supported version is the enumerator just below UNSUPPORTED, V_1.
\* Decoding a frame with a greater version tag fails whatever else the frame holds,
\* and a connection whose read failed on the version has no command, no pool task and
\* no response.
C22_NewerVersionNeverDecodes ==
    /\ LATEST_SERIALIZE_VERSION = V_1
    /\ LATEST_SERIALIZE_VERSION + 1 = UNSUPPORTED
    /\ \A f \in NewerFrames : readCommand(f, READ_TIMEOUT) = None
    /\ \A c \in Conns :
           /\ command[c] # None => readError[c] = "none"
           /\ readError[c] = "version" =>
                  /\ command[c] = None
                  /\ pushes[c] = 0
                  /\ phase[c] = "dropped"
                  /\ response[c] = None
                  /\ writes[c] = <<>>
                  /\ c \notin running
                  /\ \A k \in DOMAIN queue : queue[k] # c

\* C22 witness: a connection was dropped for its frame's version while the connections
\* before and after it, with frames of version V_1, were answered.
C22_Witness ==
    /\ readError[2] = "version"
    /\ phase[2] = "dropped"
    /\ Written(1) # {}
    /\ Written(3) # {}

\* The task of connection c is with the pool and has not made its write yet.
Pending(c) == phase[c] \in {"queued", "rendering", "responding"}

\* Connection d, submitted after connection c, has its response written while the
\* task of c is still pending.
Overtook(d, c) == c < d /\ Pending(c) /\ writes[d] # <<>>

\* C24: no completion order is enforced between connections.  A handler whose response
\* is ready can write it whatever the connections submitted before it are doing, so
\* with more than one worker a later connection can be answered before an earlier one.
C24_NoCompletionOrder ==
    \A d \in Conns : phase[d] = "responding" => ENABLED WriteResponse(d)

\* C24 witness: with two workers the third connection has its response written while
\* the second, submitted before it, is still inside its handler.
C24_Witness ==
    /\ threadCount >= 2
    /\ Overtook(3, 2)
    /\ Written(3) # {}
    /\ phase[2] \in {"rendering", "responding"}

\* The connections whose handler is inside generateImages of the one provider.
InGenerateImages == {c \in Conns : phase[c] = "rendering"}

\* Connection c carries a NewGfx command with dimensions and a worker can take it.
ReadyToRender(c) ==
    /\ phase[c] = "queued"
    /\ CanStart(c)
    /\ command[c][1].type = "NEW_GFX"
    /\ Len(command[c][1].Task.Dimensions) > 0

\* C25: the calls into the shared provider are not serialized.  A worker that takes a
\* NewGfx task enters generateImages whether or not other handlers are inside it, so
\* with two workers and two NewGfx connections two calls are in progress at once.
C25_ProviderCallsNotSerialized ==
    \A c \in Conns : ReadyToRender(c) => ENABLED ProcessGfxRender(c)

\* C25 witness: two handlers are inside generateImages at the same time, each with its
\* one call made and not yet returned.
C25_Witness ==
    \E c, d \in InGenerateImages :
        /\ c # d
        /\ threadCount >= 2
        /\ Len(generateCalls[c]) = 1
        /\ Len(generateCalls[d]) = 1
        /\ results[c] = None
        /\ results[d] = None

\* The connections for which process has returned.
ProcessReturned == {c \in Conns : returned[c] # None}

\* The push calls made for the connections 1..n for which process has returned.
RECURSIVE PushCalls(_)
PushCalls(n) ==
    IF n = 0
    THEN 0
    ELSE PushCalls(n - 1) + (IF returned[n] # None THEN pushes[n] ELSE 0)

\* The successful reads among the connections 1..n for which process has returned.
RECURSIVE SuccessfulReads(_)
SuccessfulReads(n) ==
    IF n = 0
    THEN 0
    ELSE SuccessfulReads(n - 1) + (IF returned[n] # None /\ command[n] # None THEN 1 ELSE 0)

\* C30: for each successfully read command process submits exactly one task and never
\* resubmits, whatever the pool answers: once process has returned, one push was made
\* for the connection if its command was read and none if the read failed, so the
\* push calls of the returned calls number as many as their successful reads.
C30_OnePushPerReadCommand ==
    /\ \A c \in Conns :
           /\ pushes[c] <= 1
           /\ pushes[c] = 1 => command[c] # None
    /\ PushCalls(NumConn) = SuccessfulReads(NumConn)

\* C30 witness: process has returned for all connections; the pool took the tasks of
\* two of them and refused the task of the third, and each was pushed once.
C30_Witness ==
    /\ ProcessReturned = Conns
    /\ \E c \in Conns : phase[c] = "rejected" /\ pushes[c] = 1
    /\ \E c \in Conns : phase[c] \in {"queued", "responding", "done"} /\ pushes[c] = 1
    /\ PushCalls(NumConn) = NumConn

-----------------------------------------------------------------------------
(* Further claims about GfxProcessor::supportedformats, under SpecFormats *)

\* The length of the extension s begins with: up to the next "." or the end.
RECURSIVE ExtensionLength(_, _)
ExtensionLength(s, n) ==
    IF n >= Len(s) \/ s[n + 1] = "." THEN n ELSE ExtensionLength(s, n + 1)

\* The extensions of a list such as ".tif.exr", in the order they are listed.
RECURSIVE SplitExtensions(_)
SplitExtensions(s) ==
    IF s = <<>>
    THEN <<>>
    ELSE LET n == ExtensionLength(s, 1)
         IN <<SubSeq(s, 1, n)>> \o SplitExtensions(SubSeq(s, n + 1, Len(s)))

\* The extensions supportedformats put behind the provider's list.
AppendedExtensions ==
    SplitExtensions(SubSeq(formatsOut[1], Len(provider.formats[1]) + 1, Len(formatsOut[1])))

\* Extension s is the beginning of the longer extension t.
IsProperPrefix(s, t) == Len(s) < Len(t) /\ IsPrefix(s, t)

\* The place of extension e in the list exts, 0 when it is not there.
PlaceOf(e, exts) ==
    IF \E k \in DOMAIN exts : exts[k] = e
    THEN CHOOSE k \in DOMAIN exts : exts[k] = e
    ELSE 0

Tif == <<".", "t", "i", "f">>
Tiff == <<".", "t", "i", "f", "f">>
Pic == <<".", "p", "i", "c">>
Pict == <<".", "p", "i", "c", "t">>

\* supportedformats has returned the provider's list with the suffix behind it.
SuffixAppended == formatsOut # None /\ provider.formats # None

\* C23 as stated: in the appended suffix every extension that has another listed
\* extension as a proper prefix is listed before that shorter one: ".tiff" before
\* ".tif" and ".pict" before ".pic".
C23_LongerExtensionListedFirst ==
    SuffixAppended =>
        LET exts == AppendedExtensions
        IN /\ \A i, j \in DOMAIN exts : IsProperPrefix(exts[i], exts[j]) => j < i
           /\ PlaceOf(Tiff, exts) < PlaceOf(Tif, exts)
           /\ PlaceOf(Pict, exts) < PlaceOf(Pic, exts)

\* C23 amended: in the appended suffix every extension that has another listed
\* extension as a proper prefix is listed after that shorter one: ".tif" before
\* ".tiff" and ".pic" before ".pict".
C23_ShorterExtensionListedFirst ==
    SuffixAppended =>
        LET exts == AppendedExtensions
        IN /\ \A i, j \in DOMAIN exts : IsProperPrefix(exts[i], exts[j]) => i < j
           /\ 0 < PlaceOf(Tif, exts) /\ PlaceOf(Tif, exts) < PlaceOf(Tiff, exts)
           /\ 0 < PlaceOf(Pic, exts) /\ PlaceOf(Pic, exts) < PlaceOf(Pict, exts)

\* C23 witness: the suffix was appended to a provider's list and holds six extensions,
\* one of which begins with another one.
C23_Witness ==
    /\ SuffixAppended
    /\ provider.formats[1] # <<>>
    /\ Len(AppendedExtensions) = 6
    /\ \E i, j \in DOMAIN AppendedExtensions :
           IsProperPrefix(AppendedExtensions[i], AppendedExtensions[j])

-----------------------------------------------------------------------------
(* Claims about refused tasks, failed writes and the dispatch, under Spec *)

\* The pool refused the task of connection c.
Rejected(c) == phase[c] = "rejected"

\* C31: when the pool refuses the submitted task, process still returns the shutdown
\* flag computed from the command; the task never runs, so no response is built or
\* written on the connection, then or later; and what process returns is what it
\* returns for a command of the same type whose task the pool took, so its caller
\* cannot tell the refusal.
C31_RejectionIsSilent ==
    \A c \in Conns :
        Rejected(c) =>
            /\ command[c] # None
            /\ returned[c] = Some(IsShutdown(command[c][1]))
            /\ events[c] = <<"read", "push">>
            /\ writes[c] = <<>>
            /\ response[c] = None
            /\ results[c] = None
            /\ c \notin running
            /\ \A i \in 1..Len(queue) : queue[i] # c
            /\ ~ENABLED Worker(c)
            /\ \A d \in Conns :
                   (/\ returned[d] # None
                    /\ command[d] # None
                    /\ command[d][1].type = command[c][1].type) => returned[d] = returned[c]

\* C31 witness: the pool refused the task of a SHUTDOWN command, process returned true,
\* and the tasks of the other connections have all been written while that connection
\* has no write.
C31_Witness ==
    \E c \in Conns :
        /\ Rejected(c)
        /\ command[c][1].type = "SHUTDOWN"
        /\ returned[c] = Some(TRUE)
        /\ writes[c] = <<>>
        /\ \A d \in Conns \ {c} : phase[d] = "done" /\ Len(writes[d]) = 1

\* The handler of connection c has returned.
HandlerReturned(c) == phase[c] = "done"

\* The writeCommand call of connection c failed or ran into the timeout.
WriteFailed(c) == \E k \in DOMAIN writes[c] : ~writes[c][k].ok

\* C32: every handler calls writeCommand exactly once, with the write timeout of
\* 5000 ms: a handler that has returned made one call and a handler that has not made
\* none.  When the write failed or timed out there is no second call and no response
\* is kept for one; the task has ended, its worker is free and nothing more runs for
\* the connection.
C32_OneWriteNoRetry ==
    \A c \in Conns :
        /\ HandlerReturned(c) <=> Len(writes[c]) = 1
        /\ ~HandlerReturned(c) => writes[c] = <<>>
        /\ \A k \in DOMAIN writes[c] :
               /\ writes[c][k].timeout = 5000
               /\ writes[c][k].timeout = WRITE_TIMEOUT
        /\ WriteFailed(c) =>
               /\ Len(writes[c]) = 1
               /\ Written(c) = {}
               /\ HandlerReturned(c)
               /\ response[c] = None
               /\ c \notin running
               /\ \A i \in 1..Len(queue) : queue[i] # c
               /\ ~ENABLED Worker(c)

\* C32 witness: the handlers of a HELLO, of a SHUTDOWN or SUPPORT_FORMATS and of a
\* NEW_GFX command have returned; the write of the NEW_GFX response failed, another
\* write succeeded, and each connection has its one call.
C32_Witness ==
    /\ \A c \in Conns : HandlerReturned(c) /\ Len(writes[c]) = 1
    /\ \E c \in Conns : WriteFailed(c) /\ command[c][1].type = "NEW_GFX"
    /\ \E c \in Conns : ~WriteFailed(c) /\ command[c][1].type = "HELLO"
    /\ \E c \in Conns : command[c][1].type \in {"SHUTDOWN", "SUPPORT_FORMATS"}

-----------------------------------------------------------------------------
(* Claims about the dispatch, under SpecDispatch *)

\* The task of connection c was taken by a worker and has ended.
TaskEnded(c) ==
    /\ phase[c] = "done"
    /\ \E k \in DOMAIN events[c] : events[c][k] = "start"

\* C33: every successfully read command gets a response write attempt from its pool
\* task, whatever its type value: a task that has run and ended made a writeCommand
\* call on its connection.
C33_EveryCommandGetsWriteAttempt ==
    \A c \in Conns :
        (command[c] # None /\ TaskEnded(c)) => Len(writes[c]) >= 1

-----------------------------------------------------------------------------
(* Claims about the handlers' effects, under Spec *)

\* The command read on connection c is a HELLO or a SHUTDOWN.
HelloOrShutDown(c) == command[c] # None /\ command[c][1].type \in {"HELLO", "SHUTDOWN"}

\* An acknowledgement without fields.
EmptyAcknowledgement(r) == DOMAIN r = {"type"}

\* What the Gfx Processor and the Image Provider hold and were asked.
ProcessorState == <<provider, results, locals, generateCalls, processVars, formatVars>>

\* C34: the Hello and Shutdown handlers only build and write their empty
\* acknowledgement.  The step that builds it and the step that writes it call neither
\* the Gfx Processor nor the Image Provider and leave the processor's state as it was;
\* of the pool only the worker's taking and giving back of this task changes; and the
\* connections of the other commands are untouched.
C34_HelloShutDownNoSideEffects ==
    [][\A c \in Conns :
          /\ (ProcessHello(c) \/ ProcessShutDown(c)) =>
                 /\ ProcessorState' = ProcessorState
                 /\ threadCount' = threadCount
                 /\ queue' = Tail(queue)
                 /\ running' = running \cup {c}
                 /\ response'[c] # None
                 /\ EmptyAcknowledgement(response'[c][1])
                 /\ writes' = writes
                 /\ \A d \in Conns \ {c} : ConnectionState(d)' = ConnectionState(d)
          /\ (HelloOrShutDown(c) /\ WriteResponse(c)) =>
                 /\ ProcessorState' = ProcessorState
                 /\ threadCount' = threadCount
                 /\ queue' = queue
                 /\ running' = running \ {c}
                 /\ writes'[c] = <<WriteCall(c, TRUE)>> \/ writes'[c] = <<WriteCall(c, FALSE)>>
                 /\ EmptyAcknowledgement(writes'[c][1].response)
                 /\ generateCalls'[c] = <<>>
                 /\ results'[c] = None
                 /\ \A d \in Conns \ {c} : ConnectionState(d)' = ConnectionState(d)]_vars

\* C34 witness: the handlers of a HELLO and of a SHUTDOWN command have written their
\* acknowledgements while the handler of a NEW_GFX command is inside the provider.
C34_Witness ==
    \E a, b, c \in Conns :
        /\ command[a] # None /\ command[a][1].type = "HELLO"
        /\ command[b] # None /\ command[b][1].type = "SHUTDOWN"
        /\ HandlerFinished(a) /\ HandlerFinished(b)
        /\ writes[a][1].response = CommandHelloResponse
        /\ writes[b][1].response = CommandShutDownResponse
        /\ phase[c] = "rendering"
        /\ Len(generateCalls[c]) = 1

-----------------------------------------------------------------------------
(* Claims about what a response depends on, under SpecFair *)

\* The response to a command, computed from the command and the provider alone.
ResponseTo(cmd, prov) ==
    CASE cmd.type = "HELLO" -> CommandHelloResponse
      [] cmd.type = "SHUTDOWN" -> CommandShutDownResponse
      [] cmd.type = "SUPPORT_FORMATS" -> CommandSupportFormatsResponse(prov)
      [] cmd.type = "NEW_GFX" ->
            IF DimensionsEmpty(cmd.Task)
            THEN CommandNewGfxResponse(EmptyResult(cmd.Task))
            ELSE LET idx == CHOOSE i \in SortIndices(cmd.Task.Dimensions) : TRUE
                     images == GenerateImages(cmd.Task.Path,
                                              SortDimensions(cmd.Task.Dimensions, idx))
                 IN CommandNewGfxResponse(ScatteredResult(cmd.Task, idx, images))

\* The responses handed to writeCommand on connection c.
ResponsesWritten(c) == {writes[c][k].response : k \in DOMAIN writes[c]}

\* C35: the response to a request depends only on the request and the provider.  The
\* response a handler builds or writes is the one computed from its command and the
\* provider's answers alone, so two connections that carried the same command were
\* written the same response, whichever commands were read, refused, processed or
\* failed before them or beside them.
C35_ResponseDependsOnRequestOnly ==
    \A c \in Conns :
        /\ response[c] # None => response[c][1] = ResponseTo(command[c][1], provider)
        /\ \A r \in ResponsesWritten(c) : r = ResponseTo(command[c][1], provider)
        /\ \A d \in Conns :
               (command[d] = command[c]) =>
                   \A r \in ResponsesWritten(c) : \A q \in ResponsesWritten(d) : r = q

\* C35 witness: the same NEW_GFX command was read on the first and on the last
\* connection and both were written the same response with its three images; the first
\* was processed with nothing before it, the last after a connection in between whose
\* read failed or whose command was another one.
C35_Witness ==
    /\ command[1] # None
    /\ command[1] = command[NumConn]
    /\ command[1][1].type = "NEW_GFX"
    /\ HandlerFinished(1) /\ HandlerFinished(NumConn)
    /\ writes[1][1].response = writes[NumConn][1].response
    /\ Len(writes[1][1].response.Images) = 3
    /\ \E e \in Conns : phase[e] = "dropped" \/ (command[e] # None /\ command[e] # command[1])

-----------------------------------------------------------------------------
(* Claims about the endpoint's lifetime, under SpecDispatch *)

\* The pool holds the task of connection c or a worker is running it.
TaskAlive(c) == phase[c] \in {"queued", "rendering", "responding"}

\* process is between its call and its return for connection c.
InsideProcess(c) == phase[c] \in {"reading", "pushing"}

-----------------------------------------------------------------------------
(* Claims about the accept path, under Spec *)

\* The connections whose readCommand call is in progress.
Reading == {c \in Conns : phase[c] = "reading"}

\* The read of connection c has ended: with a command, or with a failure, of which
\* the expiry of the read timeout is one.
ReadEnded(c) ==
    \E k \in DOMAIN events[c] : events[c][k] \in {"read", "readFailed"}

\* A handler of connection d is at work on the pool.
HandlerAtWork(d) == phase[d] \in {"rendering", "responding"}

\* C37: with one accept loop calling process serially at most one connection is in its
\* read step; while it is, process has returned for every connection before it, whose
\* reads have all ended, and no later connection has been taken up.  The handlers of
\* the earlier connections are not held up by the read: one that is at work can take
\* its next step.
C37_OneReadAtATime ==
    /\ Cardinality(Reading) <= 1
    /\ \A c \in Reading :
           /\ c = accepted
           /\ \A d \in Conns :
                  /\ d < c => ReadEnded(d) /\ returned[d] # None
                  /\ d > c => phase[d] = "waiting" /\ events[d] = <<>>
                  /\ (d < c /\ phase[d] = "responding") => ENABLED WriteResponse(d)
                  /\ (d < c /\ phase[d] = "rendering") => ENABLED GfxRendered(d)
    /\ \A c \in Conns : phase[c] # "waiting" /\ c # accepted => ReadEnded(c)

\* C37 witness: the last connection is in its read step while the handler of an earlier
\* connection is inside the provider and the task of another waits in the pool or is
\* about to be written.
C37_Witness ==
    /\ Reading = {NumConn}
    /\ \E d \in Conns : d < NumConn /\ phase[d] = "rendering"
    /\ \E d \in Conns : d < NumConn /\ phase[d] \in {"queued", "responding"}

-----------------------------------------------------------------------------
(* Claims about how often a task is processed, under SpecFair *)

\* How often a worker started the task of connection c.
Starts(c) == Cardinality({k \in DOMAIN events[c] : events[c][k] = "start"})

\* The processor returned ERR to the handler of connection c.
ReturnedErr(c) == results[c] # None /\ results[c][1].ProcessStatus = ERR

\* C38: a Gfx Task is processed at most once and its status is final.  The status the
\* processor returns is SUCCESS or ERR, never PENDING; the task of a NewGfx command is
\* started at most once, so the processor is called at most once for it and the
\* provider at most once; and after ERR the provider was not called, the task is not
\* queued again and the ERR is what is written.
C38_ProcessedAtMostOnce ==
    \A c \in Conns :
        /\ Starts(c) <= 1
        /\ Len(generateCalls[c]) <= 1
        /\ generateCalls[c] # <<>> => Starts(c) = 1 /\ command[c][1].type = "NEW_GFX"
        /\ results[c] # None =>
               /\ Starts(c) = 1
               /\ results[c][1].ProcessStatus \in {SUCCESS, ERR}
               /\ results[c][1].ProcessStatus # PENDING
        /\ ReturnedErr(c) =>
               /\ generateCalls[c] = <<>>
               /\ phase[c] \in {"responding", "done"}
               /\ \A i \in 1..Len(queue) : queue[i] # c
               /\ response[c] # None => response[c][1].ErrorCode = ERR
               /\ \A k \in DOMAIN writes[c] : writes[c][k].response.ErrorCode = ERR

\* C38 witness: one NewGfx task ended with ERR and another with SUCCESS; both handlers
\* have written, the first without a provider call and the second with one.
C38_Witness ==
    \E c, d \in Conns :
        /\ ReturnedErr(c) /\ HandlerFinished(c) /\ Starts(c) = 1
        /\ generateCalls[c] = <<>>
        /\ results[d] # None /\ results[d][1].ProcessStatus = SUCCESS
        /\ HandlerFinished(d) /\ Starts(d) = 1
        /\ Len(generateCalls[d]) = 1

-----------------------------------------------------------------------------
(* Claims about the video list and the SupportFormats handler, under              *)
(* SpecSupportFormats                                                              *)

\* t ends with s.
EndsWith(t, s) ==
    /\ Len(s) <= Len(t)
    /\ SubSeq(t, Len(t) - Len(s) + 1, Len(t)) = s

\* The SupportFormats responses handed to writeCommand by the handler.
SupportFormatsWritten == {writes[1][k].response : k \in DOMAIN writes[1]}

\* C39: supportedvideoformats returns the provider's video list unchanged when the
\* provider reports one and the empty string when it reports null; the suffix
\* ".tif.exr.pic.pct.tiff.pict" is never appended to it; and processSupportFormats
\* puts the still-image string into formats and the video string into videoformats.
C39_VideoListUnchanged ==
    /\ videoOut # None =>
           /\ provider.videoformats # None => videoOut[1] = provider.videoformats[1]
           /\ provider.videoformats = None => videoOut[1] = <<>>
           /\ ~EndsWith(videoOut[1], TifExrPicPctTiffPict)
    /\ \A r \in SupportFormatsWritten :
           /\ r.type = "SUPPORT_FORMATS_RESPONSE"
           /\ r.videoformats =
                  (IF provider.videoformats # None THEN provider.videoformats[1] ELSE <<>>)
           /\ r.formats =
                  (IF provider.formats # None
                   THEN provider.formats[1] \o TifExrPicPctTiffPict
                   ELSE <<>>)
           /\ ~EndsWith(r.videoformats, TifExrPicPctTiffPict)
           /\ videoOut = Some(r.videoformats)
           /\ formatsOut = Some(r.formats)

\* C39 witness: over a provider that reports ".jpg.png" and ".mp4" the handler has
\* written a response whose videoformats is ".mp4" and whose formats is the longer
\* still-image string.
C39_Witness ==
    /\ provider = ServerProvider
    /\ videoOut = Some(Mp4)
    /\ \E r \in SupportFormatsWritten :
           /\ r.videoformats = Mp4
           /\ r.formats = JpgPng \o TifExrPicPctTiffPict
           /\ r.formats # r.videoformats

====
